---------------------------- MODULE Spec2Model ----------------------------
(***************************************************************************)
(* clasp-gui: the Protocol message router (include/clasp-gui/clasp.hpp)    *)
(* layered on WebView (src/webview.cpp).                                   *)
(*                                                                         *)
(* The specifications share the variables:                                 *)
(*   Spec      producer threads and the UI thread's processQueue on one    *)
(*             Protocol, interleaved statement by statement, at one clock  *)
(*             reading, for each update interval set-up can leave;         *)
(*   SpecRate  one producer thread and a long clock, for the throttle;     *)
(*   SpecCall  the WebView / Protocol lifecycle and the JS -> C++ calls;   *)
(*   SpecView  the WebView lifecycle and its null-checked operations;      *)
(*   SpecGui   GuiHelper::create (src/clap/gui_helper.cpp);                *)
(*   SpecSize  GuiHelper's size limits and adjustSize;                     *)
(*   SpecPair  a Protocol and a WebView given the same calls, one thread;  *)
(*   SpecDispatch  onCall and handleCall on two threads, with fairness;    *)
(*   SpecLock  the queue mutexes of a Protocol and a WebView, two producer *)
(*             threads and the UI thread.                                  *)
(* Time is in milliseconds, the unit of updateInterval_.                   *)
(***************************************************************************)
EXTENDS Integers, Sequences, FiniteSets, TLC

(* ------------------------------ bounds --------------------------------- *)
MaxEvents == 3        \* events appended to the pending queues (Spec)
MaxRateSets == 1      \* accepted setUpdateRateHz calls
MaxRateCalls == 4     \* accepted parameter updates of SpecRate
MaxRateTicks == 3     \* clock advances of SpecRate
MaxCalls == 1         \* call messages of SpecCall
MaxCreates == 2       \* native webview instances constructed
MaxScripts == 2       \* scripts evaluated through the WebView interface
MaxPairEvents == 2
MaxOnCalls == 2    \* events given to both objects (SpecPair)

(* -------------------------- program constants -------------------------- *)
MAX_PARAMS == 256
DefaultIntervalMs == 16
DefaultHz == 60
MaxHz == 1000
MsPerSecond == 1000
NoWindow == 0         \* void* parentWindow = nullptr
NoView == 0           \* an empty std::unique_ptr<choc::ui::WebView>
DefaultMinWidth == 200
DefaultMinHeight == 150
DefaultMaxWidth == 4096
DefaultMaxHeight == 4096

(* ------------------------------ inputs --------------------------------- *)
Producers == {"p1", "p2"}
UI == "ui"
NoOwner == "none"
StartClock == MsPerSecond
ParamIds == {0, 255}          \* SpecRate: both ends of the throttled range
QueueParamIds == {0, 256}     \* Spec: a throttled id and one past the range
Values == {1}
HzInputs == {0, 3, 1000, 1001}
Channels == {0}
Keys == {60}
Velocities == {1}
CCNumbers == {7}
CCValues == {64}
BulkInputs == { << >>, << <<0, 1>>, <<1, 1>> >> }

VARIABLES
    now,               \* std::chrono::steady_clock::now(), ms
    webview,           \* WebView::Impl::webview is not null
    created,           \* WebView::Impl::created
    bindings,          \* names bound on the native webview
    constructed,       \* the Protocol object exists
    createdAtConstruction, \* history: WebView state when Protocol was built
    callHandlers,      \* Protocol::callHandlers_
    updateInterval,    \* Protocol::updateInterval_, ms
    lastParamUpdate,   \* Protocol::lastParamUpdate_
    pendingParams,     \* Protocol::pendingParams_
    pendingBulkParams, \* Protocol::pendingBulkParams_
    pendingNotes,      \* Protocol::pendingNotes_
    pendingCCs,        \* Protocol::pendingCCs_
    queueMutex,        \* owner of Protocol::queueMutex_
    pc,                \* position of each thread
    frame,             \* arguments and locals of each producer's call
    drain,             \* locals of processQueue
    sent,              \* messages evaluated in the webview by sendToJs
    replies,           \* replies evaluated in the webview by sendReply
    calls,             \* history: call messages received by the binding
    nextTag,           \* history: events appended so far
    swapCount,         \* history: locked swaps that moved an event
    acceptLog,         \* history: parameter updates that passed the throttle
    lastCall,          \* history: the queueParamChange call just made, if any
    rate,              \* history: the rate in force, the valid calls that set it
    ticks,             \* history: clock advances of SpecRate
    parentWindow,      \* WebView::Impl::parentWindow, 0 is nullptr
    native,            \* the choc::ui::WebView instances and the one held
    ret,               \* history: the last WebView / GuiHelper call's result
    platform,          \* the build: which #if branch was compiled
    gui,               \* GuiHelper's members
    adj,               \* history: the last adjustSize call, in and out
    wv,                \* WebView's own queues and throttle members
    paramCalls,        \* history: parameter updates given to both objects
    handlersMutex,     \* owner of Protocol::handlersMutex_
    disp,              \* position and locals of each thread in onCall / handleCall
    wvLock             \* owner of WebView::queueMutex_, positions and locals of its callers

vars == << now, webview, created, bindings, constructed, createdAtConstruction,
           callHandlers, updateInterval, lastParamUpdate, pendingParams,
           pendingBulkParams, pendingNotes, pendingCCs, queueMutex, pc, frame,
           drain, sent, replies, calls, nextTag, swapCount, acceptLog,
           lastCall, rate, ticks, parentWindow, native, ret, platform, gui,
           adj, wv, paramCalls, handlersMutex, disp, wvLock >>

webVars == << webview, created, bindings, constructed, createdAtConstruction >>
callVars == << callHandlers, replies, calls >>
queueVars == << pendingParams, pendingBulkParams, pendingNotes, pendingCCs >>
throttleVars == << updateInterval, lastParamUpdate >>
histVars == << nextTag, swapCount, acceptLog, lastCall, rate, ticks >>
viewVars == << parentWindow, native, ret, platform >>
guiVars == << gui, adj >>
pairVars == << wv, paramCalls >>
lockVars == << handlersMutex, disp, wvLock >>
extVars == << viewVars, guiVars, pairVars, lockVars >>

NoFrame == [op |-> "none"]
NoDrain == [params |-> << >>, bulkParams |-> << >>, notes |-> << >>, ccs |-> << >>]
NoCall == [id |-> -1, accepted |-> FALSE]

(* ----------------------------- throttle -------------------------------- *)
\* clasp.hpp:80  paramId >= 0 && paramId < MAX_PARAMS
InRange(paramId) == paramId >= 0 /\ paramId < MAX_PARAMS

ThrottledAlwaysPass(t, last, interval) == FALSE

\* clasp.hpp:82  now - lastParamUpdate_[paramId] < updateInterval_
Throttled(t, last, interval) == t - last < interval

StoreStampAll(arr, paramId, t) == [i \in DOMAIN arr |-> t]

\* clasp.hpp:85  lastParamUpdate_[paramId] = now
StoreStamp(arr, paramId, t) == [arr EXCEPT ![paramId] = t]

\* clasp.hpp:204  std::chrono::milliseconds(1000 / hz)
IntervalForHz(hz) == MsPerSecond \div hz


\* clasp.hpp:202-206  Protocol::setUpdateRateHz
NewInterval(hz, old) == IF hz > 0 /\ hz <= MaxHz THEN IntervalForHz(hz) ELSE old

\* Entries of lastParamUpdate_ the inputs can touch; the other entries of the
\* 256-element array keep their initial value for ever.
TrackedIds == {i \in ParamIds \cup QueueParamIds : InRange(i)}

(* ------------------------- the pending queues -------------------------- *)
PushFront(q, e) == <<e>> \o q

\* std::vector::push_back
PushBack(q, e) == Append(q, e)

InsertFirstOnly(q, es) == IF es = << >> THEN q ELSE Append(q, es[1])

\* clasp.hpp:98  pendingBulkParams_.insert(end(), params.begin(), params.end())
InsertAtEnd(q, es) == q \o es

KeptAfterMove(q) == q

\* clasp.hpp:142-149  v = std::move(pending); pending.clear()
ClearedAfterMove(q) == << >>

AllPendingEmpty(pp, pb, pn, pcc) ==
    pp = << >> /\ pb = << >> /\ pn = << >> /\ pcc = << >>

\* history stamped on an event when it is appended: its number, and how many
\* locked swaps had been done
Stamp(k) == [tag |-> nextTag + k, epoch |-> swapCount]

\* events a call in progress has still to append
InFlight(p) == IF frame[p].op = "none" THEN 0
               ELSE IF frame[p].op = "bulk" THEN Len(frame[p].params) ELSE 1

RECURSIVE SumInFlight(_)
SumInFlight(S) == IF S = {} THEN 0
                  ELSE LET p == CHOOSE x \in S : TRUE
                       IN InFlight(p) + SumInFlight(S \ {p})

Room(n) == nextTag + SumInFlight(Producers) + n <= MaxEvents

(* --------------------- producer threads: Protocol ---------------------- *)
\* clasp.hpp:78-86  the throttle check of queueParamChange, outside the lock
QueueParamChange_Check(p, paramId, value) ==
    /\ constructed
    /\ pc[p] = "idle"
    /\ Room(1)
    /\ LET last == IF InRange(paramId) THEN lastParamUpdate[paramId] ELSE 0
           reject == InRange(paramId) /\ Throttled(now, last, updateInterval)
       IN IF reject
          THEN UNCHANGED << pc, frame, acceptLog >>
          ELSE /\ frame' = [frame EXCEPT ![p] =
                      [op |-> "param", id |-> paramId, value |-> value, t |-> now]]
               /\ pc' = [pc EXCEPT ![p] = IF InRange(paramId) THEN "store" ELSE "lock"]
               /\ acceptLog' = Append(acceptLog,
                      [id |-> paramId, t |-> now, interval |-> updateInterval,
                       hz |-> rate.hz, sets |-> rate.sets])
    /\ UNCHANGED << extVars, now, webVars, callVars, queueVars, throttleVars, queueMutex,
                    drain, sent, nextTag, swapCount, lastCall, rate, ticks >>

\* clasp.hpp:85  lastParamUpdate_[paramId] = now
QueueParamChange_Store(p) ==
    /\ pc[p] = "store"
    /\ lastParamUpdate' = StoreStamp(lastParamUpdate, frame[p].id, frame[p].t)
    /\ pc' = [pc EXCEPT ![p] = "lock"]
    /\ UNCHANGED << extVars, now, webVars, callVars, queueVars, updateInterval, queueMutex,
                    frame, drain, sent, histVars >>

\* std::lock_guard<std::mutex> lock(queueMutex_), the first statement of
\* queueBulkParamUpdate, queueNoteOn, queueNoteOff and queueMidiCC
BeginCall(p, f) ==
    /\ constructed
    /\ pc[p] = "idle"
    /\ queueMutex = NoOwner
    /\ queueMutex' = p
    /\ frame' = [frame EXCEPT ![p] = f]
    /\ pc' = [pc EXCEPT ![p] = "push"]
    /\ UNCHANGED << extVars, now, webVars, callVars, queueVars, throttleVars,
                    drain, sent, histVars >>

\* clasp.hpp:96  queueBulkParamUpdate(params)
QueueBulkParamUpdate_Call(p, params) ==
    /\ Room(Len(params))
    /\ BeginCall(p, [op |-> "bulk", params |-> params])

\* clasp.hpp:105  queueNoteOn(channel, key, velocity)
QueueNoteOn_Call(p, channel, key, velocity) ==
    /\ Room(1)
    /\ BeginCall(p, [op |-> "noteOn", channel |-> channel, key |-> key,
                     velocity |-> velocity])

\* clasp.hpp:114  queueNoteOff(channel, key)
QueueNoteOff_Call(p, channel, key) ==
    /\ Room(1)
    /\ BeginCall(p, [op |-> "noteOff", channel |-> channel, key |-> key])

\* clasp.hpp:123  queueMidiCC(channel, cc, value)
QueueMidiCC_Call(p, channel, cc, value) ==
    /\ Room(1)
    /\ BeginCall(p, [op |-> "cc", channel |-> channel, cc |-> cc, value |-> value])

\* clasp.hpp:88  std::lock_guard<std::mutex> lock(queueMutex_)
QueueParamChange_Lock(p) ==
    /\ pc[p] = "lock"
    /\ queueMutex = NoOwner
    /\ queueMutex' = p
    /\ pc' = [pc EXCEPT ![p] = "push"]
    /\ UNCHANGED << extVars, now, webVars, callVars, queueVars, throttleVars, frame,
                    drain, sent, histVars >>

\* the pairs of a bulk call, each with its history stamp
StampedPairs(params) ==
    [i \in 1..Len(params) |->
        [first |-> params[i][1], second |-> params[i][2], src |-> Stamp(i - 1)]]

\* clasp.hpp:89, 98, 107, 116, 125  the append, then the lock_guard's release
Producer_Push(p) ==
    /\ pc[p] = "push"
    /\ queueMutex = p
    /\ LET f == frame[p] IN
       /\ pendingParams' =
            IF f.op = "param"
            THEN PushBack(pendingParams, [id |-> f.id, value |-> f.value, src |-> Stamp(0)])
            ELSE pendingParams
       /\ pendingBulkParams' =
            IF f.op = "bulk"
            THEN InsertAtEnd(pendingBulkParams, StampedPairs(f.params))
            ELSE pendingBulkParams
       /\ pendingNotes' =
            IF f.op = "noteOn"
            THEN PushBack(pendingNotes, [channel |-> f.channel, key |-> f.key,
                     velocity |-> f.velocity, isNoteOn |-> TRUE, src |-> Stamp(0)])
            ELSE IF f.op = "noteOff"
            THEN PushBack(pendingNotes, [channel |-> f.channel, key |-> f.key,
                     velocity |-> 0, isNoteOn |-> FALSE, src |-> Stamp(0)])
            ELSE pendingNotes
       /\ pendingCCs' =
            IF f.op = "cc"
            THEN PushBack(pendingCCs, [channel |-> f.channel, cc |-> f.cc,
                     value |-> f.value, src |-> Stamp(0)])
            ELSE pendingCCs
       /\ nextTag' = nextTag + InFlight(p)
    /\ queueMutex' = NoOwner
    /\ pc' = [pc EXCEPT ![p] = "idle"]
    /\ frame' = [frame EXCEPT ![p] = NoFrame]
    /\ UNCHANGED << extVars, now, webVars, callVars, throttleVars, drain, sent,
                    swapCount, acceptLog, lastCall, rate, ticks >>

(* ---------------------- UI thread: processQueue ------------------------ *)
\* clasp.hpp:133, 141  if (!webview_) return; lock_guard lock(queueMutex_)
ProcessQueue_Lock ==
    /\ constructed
    /\ pc[UI] = "idle"
    /\ queueMutex = NoOwner
    /\ queueMutex' = UI
    /\ pc' = [pc EXCEPT ![UI] = "swap"]
    /\ UNCHANGED << extVars, now, webVars, callVars, queueVars, throttleVars, frame,
                    drain, sent, histVars >>

\* clasp.hpp:142-150  the four moves, the four clears, the end of the block
ProcessQueue_Swap ==
    /\ pc[UI] = "swap"
    /\ queueMutex = UI
    /\ drain' = [params |-> pendingParams, bulkParams |-> pendingBulkParams,
                 notes |-> pendingNotes, ccs |-> pendingCCs]
    /\ pendingParams' = ClearedAfterMove(pendingParams)
    /\ pendingBulkParams' = ClearedAfterMove(pendingBulkParams)
    /\ pendingNotes' = ClearedAfterMove(pendingNotes)
    /\ pendingCCs' = ClearedAfterMove(pendingCCs)
    /\ swapCount' = IF AllPendingEmpty(pendingParams, pendingBulkParams,
                                        pendingNotes, pendingCCs)
                    THEN swapCount ELSE swapCount + 1
    /\ queueMutex' = NoOwner
    /\ pc' = [pc EXCEPT ![UI] = "send"]
    /\ UNCHANGED << extVars, now, webVars, callVars, throttleVars, frame,
                    sent, nextTag, acceptLog, lastCall, rate, ticks >>

Msg(type, body, srcs) ==
    [t |-> type, body |-> body, src |-> srcs, drain |-> swapCount]

\* clasp.hpp:153-156  one "param" message per update
ParamMsgs(ps) ==
    [i \in 1..Len(ps) |-> Msg("param", <<ps[i].id, ps[i].value>>, <<ps[i].src>>)]

\* clasp.hpp:159-169  one "params" message for all the pairs, none when empty
BulkMsgs(bs) ==
    IF bs = << >> THEN << >>
    ELSE << Msg("params", [i \in 1..Len(bs) |-> <<bs[i].first, bs[i].second>>],
                [i \in 1..Len(bs) |-> bs[i].src]) >>

\* clasp.hpp:172-181  "noteOn" or "noteOff" per note event
NoteMsgs(ns) ==
    [i \in 1..Len(ns) |->
        IF ns[i].isNoteOn
        THEN Msg("noteOn", <<ns[i].channel, ns[i].key, ns[i].velocity>>, <<ns[i].src>>)
        ELSE Msg("noteOff", <<ns[i].channel, ns[i].key>>, <<ns[i].src>>)]

\* clasp.hpp:184-188  one "midiCC" message per CC event
CCMsgs(cs) ==
    [i \in 1..Len(cs) |->
        Msg("midiCC", <<cs[i].channel, cs[i].cc, cs[i].value>>, <<cs[i].src>>)]

\* webview.cpp:287-291  evaluateScript does nothing without a native webview
Evaluate(log, msgs) == IF webview THEN log \o msgs ELSE log

SendOrderCCsFirst(ps, bs, ns, cs) == cs \o ps \o bs \o ns

\* clasp.hpp:152-189  the order of the four send blocks
SendOrder(ps, bs, ns, cs) == ps \o bs \o ns \o cs

\* clasp.hpp:152-189  the four send loops, through sendToJs
ProcessQueue_Send ==
    /\ pc[UI] = "send"
    /\ sent' = Evaluate(sent, SendOrder(ParamMsgs(drain.params),
                                        BulkMsgs(drain.bulkParams),
                                        NoteMsgs(drain.notes), CCMsgs(drain.ccs)))
    /\ drain' = NoDrain
    /\ pc' = [pc EXCEPT ![UI] = "idle"]
    /\ UNCHANGED << extVars, now, webVars, callVars, queueVars, throttleVars, queueMutex,
                    frame, histVars >>

\* clasp.hpp:202-206  Protocol::setUpdateRateHz
SetUpdateRateHz(hz) ==
    /\ constructed
    /\ pc[UI] = "idle"
    /\ rate.sets < MaxRateSets
    /\ updateInterval' = NewInterval(hz, updateInterval)
    /\ rate' = IF hz > 0 /\ hz <= MaxHz
               THEN [hz |-> hz, sets |-> rate.sets + 1]
               ELSE rate
    /\ lastCall' = NoCall
    /\ UNCHANGED << extVars, now, webVars, callVars, queueVars, lastParamUpdate, queueMutex,
                    pc, frame, drain, sent, nextTag, swapCount, acceptLog, ticks >>


(* ------------------------- WebView lifecycle --------------------------- *)
NoRet ==
    [op |-> "none", value |-> "void", handle |-> NoView, args |-> << >>,
     called |-> FALSE]

Ret(op, value) == [NoRet EXCEPT !.op = op, !.value = value]

RetOf(op, value, args) == [NoRet EXCEPT !.op = op, !.value = value, !.args = args]

BoolRet(b) == IF b THEN "true" ELSE "false"

\* no native instance: what `native` says while impl_->webview is null
NoNative(made) ==
    [id |-> NoView, made |-> made, live |-> {}, scripts |-> 0,
     page |-> "none", placement |-> "none", size |-> << >>]

NeverAlreadyCreated(c) == FALSE

\* webview.cpp:198  if (impl_->created) return true
AlreadyCreated(c) == c

\* webview.cpp:200-222  make_unique replaces what the pointer held; the new
\* instance gets the init script once
FreshNative(old) ==
    [id |-> old.made + 1, made |-> old.made + 1,
     live |-> (old.live \ {old.id}) \cup {old.made + 1},
     scripts |-> 1, page |-> "blank", placement |-> "none", size |-> << >>]

\* webview.cpp:197-225  the body of WebView::create
CreateBody ==
    /\ AlreadyCreated(created) \/ native.made < MaxCreates
    /\ IF AlreadyCreated(created)
       THEN UNCHANGED << webview, created, native, bindings >>
       ELSE /\ webview' = TRUE
            /\ created' = TRUE
            /\ native' = FreshNative(native)
            /\ bindings' = {}

\* webview.cpp:197-225  WebView::create
Create ==
    /\ pc[UI] = "idle"
    /\ CreateBody
    /\ ret' = Ret("create", BoolRet(webview'))
    /\ UNCHANGED << now, parentWindow, platform, lockVars, guiVars, pairVars, constructed,
                    createdAtConstruction, callVars, queueVars, throttleVars,
                    queueMutex, pc, frame, drain, sent, histVars >>

\* webview.cpp:227-235  the body of WebView::destroy; the bindings go with
\* the instance
DestroyBody ==
    /\ webview' = FALSE
    /\ created' = FALSE
    /\ parentWindow' = NoWindow
    /\ bindings' = IF webview THEN {} ELSE bindings
    /\ native' = IF webview THEN NoNative(native.made) ELSE native

\* webview.cpp:227-235  WebView::destroy
Destroy ==
    /\ pc[UI] = "idle"
    /\ DestroyBody
    /\ ret' = Ret("destroy", "void")
    /\ UNCHANGED << now, platform, lockVars, guiVars, pairVars, constructed,
                    createdAtConstruction, callVars, queueVars, throttleVars,
                    queueMutex, pc, frame, drain, sent, histVars >>

(* --------------------------- specification ----------------------------- *)
\* gui_helper.h:47-53  GuiHelper's members as constructed
NoGui ==
    [webview |-> FALSE,
     minWidth |-> DefaultMinWidth, minHeight |-> DefaultMinHeight,
     maxWidth |-> DefaultMaxWidth, maxHeight |-> DefaultMaxHeight]

NoAdj == [in |-> << >>, out |-> << >>, again |-> << >>]

\* webview.h:141-153, webview.cpp:163  WebView's queue members as constructed
NoQueued ==
    [pendingParams |-> << >>, pendingBulkParams |-> << >>,
     pendingNotes |-> << >>, pendingCCs |-> << >>,
     lastParamUpdate |-> [i \in TrackedIds |-> 0],
     updateInterval |-> DefaultIntervalMs,
     sent |-> << >>]

\* no call is being dispatched, no onCall is in progress
NoDispatch ==
    [pc |-> [t \in {"p1", "ui"} |-> "idle"],
     call |-> [fn |-> << >>, id |-> 0, handler |-> [kind |-> "none", text |-> << >>],
               result |-> << >>],
     reg |-> [t \in {"p1", "ui"} |-> [name |-> << >>,
                                      handler |-> [kind |-> "none", text |-> << >>],
                                      back |-> "idle"]],
     onCalls |-> 0,
     started |-> 0]

\* webview.h:141-153  WebView::queueMutex_ is free, processQueuedUpdates is not running
NoWvLock ==
    [owner |-> "none",
     drain |-> [params |-> << >>, bulkParams |-> << >>, notes |-> << >>, ccs |-> << >>]]

\* webview.cpp:161-164 and clasp.hpp:53-57, 409-425: the members' initial values
InitCommon ==
    /\ now = StartClock
    /\ callHandlers = << >>
    /\ lastParamUpdate = [i \in TrackedIds |-> 0]
    /\ pendingParams = << >>
    /\ pendingBulkParams = << >>
    /\ pendingNotes = << >>
    /\ pendingCCs = << >>
    /\ queueMutex = NoOwner
    /\ pc = [p \in Producers \cup {UI} |-> "idle"]
    /\ frame = [p \in Producers |-> NoFrame]
    /\ drain = NoDrain
    /\ sent = << >>
    /\ replies = << >>
    /\ calls = << >>
    /\ nextTag = 0
    /\ swapCount = 0
    /\ acceptLog = << >>
    /\ lastCall = NoCall
    /\ ticks = 0
    /\ parentWindow = NoWindow
    /\ ret = NoRet
    /\ gui = NoGui
    /\ adj = NoAdj
    /\ wv = NoQueued
    /\ paramCalls = << >>
    /\ handlersMutex = NoOwner
    /\ disp = NoDispatch
    /\ wvLock = NoWvLock

\* the rate members as constructed (clasp.hpp:425)
InitDefaultRate ==
    /\ updateInterval = DefaultIntervalMs
    /\ rate = [hz |-> DefaultHz, sets |-> 0]

\* a Protocol built on a created WebView (clasp.hpp:53-57, webview.cpp:293-310)
InitCreated ==
    /\ InitCommon
    /\ webview = TRUE
    /\ created = TRUE
    /\ bindings = {"__clasp"}
    /\ constructed = TRUE
    /\ createdAtConstruction = TRUE
    /\ native = FreshNative(NoNative(0))
    /\ platform = "other"

\* Spec starts when the threads start: setUpdateRateHz(hz) has been called
\* once during set-up, with a valid or an invalid hz (clasp.hpp:202-206)
Init ==
    /\ InitCreated
    /\ \E hz \in HzInputs :
          /\ updateInterval = NewInterval(hz, DefaultIntervalMs)
          /\ rate = IF hz > 0 /\ hz <= MaxHz
                    THEN [hz |-> hz, sets |-> 1]
                    ELSE [hz |-> DefaultHz, sets |-> 0]

Next ==
    \/ \E p \in Producers, i \in QueueParamIds, v \in Values :
          QueueParamChange_Check(p, i, v)
    \/ \E p \in Producers : QueueParamChange_Store(p)
    \/ \E p \in Producers, b \in BulkInputs : QueueBulkParamUpdate_Call(p, b)
    \/ \E p \in Producers, c \in Channels, k \in Keys, v \in Velocities :
          QueueNoteOn_Call(p, c, k, v)
    \/ \E p \in Producers, c \in Channels, k \in Keys : QueueNoteOff_Call(p, c, k)
    \/ \E p \in Producers, c \in Channels, n \in CCNumbers, v \in CCValues :
          QueueMidiCC_Call(p, c, n, v)
    \/ \E p \in Producers : QueueParamChange_Lock(p)
    \/ \E p \in Producers : Producer_Push(p)
    \/ ProcessQueue_Lock
    \/ ProcessQueue_Swap
    \/ ProcessQueue_Send

Spec == Init /\ [][Next]_vars


(* ------------------------ properties of the queue ---------------------- *)
RECURSIVE Concat(_)
Concat(ss) == IF ss = << >> THEN << >> ELSE Head(ss) \o Concat(Tail(ss))

SrcOf(q) == [i \in 1..Len(q) |-> q[i].src]

Class(type) == IF type \in {"noteOn", "noteOff"} THEN "note" ELSE type

\* the stamps of the events sent so far, in the order sent, with their message
SentEvents ==
    Concat([i \in 1..Len(sent) |->
              [k \in 1..Len(sent[i].src) |->
                  [tag |-> sent[i].src[k].tag, epoch |-> sent[i].src[k].epoch,
                   class |-> Class(sent[i].t), drain |-> sent[i].drain]]])

PendingEvents ==
    SrcOf(pendingParams) \o SrcOf(pendingBulkParams) \o SrcOf(pendingNotes)
        \o SrcOf(pendingCCs)

DrainEvents ==
    SrcOf(drain.params) \o SrcOf(drain.bulkParams) \o SrcOf(drain.notes)
        \o SrcOf(drain.ccs)

Occurrences(q, tag) == Cardinality({i \in 1..Len(q) : q[i].tag = tag})

\* every appended event is in exactly one place, once; what is still pending
\* was appended after the last swap; what was sent went out with the first
\* swap that followed its append
C1_State ==
    /\ \A tag \in 0..(nextTag - 1) :
          /\ Occurrences(PendingEvents, tag) + Occurrences(DrainEvents, tag)
                + Occurrences(SentEvents, tag) = 1
          /\ pc[UI] = "idle" =>
                Occurrences(PendingEvents, tag) + Occurrences(SentEvents, tag) = 1
    /\ \A i \in 1..Len(PendingEvents) : PendingEvents[i].epoch = swapCount
    /\ \A i \in 1..Len(DrainEvents) : DrainEvents[i].epoch = swapCount - 1
    /\ \A i \in 1..Len(SentEvents) : SentEvents[i].drain = SentEvents[i].epoch + 1

C1_Step ==
    (pc[UI] = "swap" /\ pc'[UI] = "send") =>
        AllPendingEmpty(pendingParams', pendingBulkParams', pendingNotes', pendingCCs')

\* C1: with the webview created, every event appended to a pending queue is
\* sent to JS exactly once, by the first processQueue whose locked swap follows
\* the append, and the four pending queues are empty when the locked section of
\* processQueue ends.
C1_ExactlyOnce == []C1_State /\ [][C1_Step]_vars

\* events of both drains have been sent, and more than one in some drain
C1_Witness ==
    /\ pc[UI] = "idle"
    /\ swapCount = 2
    /\ \E i, j \in 1..Len(sent) : sent[i].drain = 1 /\ sent[j].drain = 2
    /\ Len(SentEvents) = nextTag
    /\ nextTag >= 2

\* C2: queueParamChange is thread-safe: in no interleaving do two updates of
\* the same parameter id both pass the throttle check within one update
\* interval.
C2_NoDoublePass ==
    \A i, j \in 1..Len(acceptLog) :
        (i < j /\ acceptLog[i].id = acceptLog[j].id /\ InRange(acceptLog[i].id))
            => acceptLog[j].t - acceptLog[i].t >= acceptLog[j].interval

C9_Step ==
    \A p \in Producers :
        (pc[p] = "push" /\ pc'[p] = "idle") =>
            LET f == frame[p]
                nb == Len(pendingBulkParams)
                nn == Len(pendingNotes)
                nc == Len(pendingCCs)
            IN /\ f.op = "bulk" =>
                    /\ Len(pendingBulkParams') = nb + Len(f.params)
                    /\ SubSeq(pendingBulkParams', 1, nb) = pendingBulkParams
                    /\ \A i \in 1..Len(f.params) :
                          /\ pendingBulkParams'[nb + i].first = f.params[i][1]
                          /\ pendingBulkParams'[nb + i].second = f.params[i][2]
               /\ f.op \in {"noteOn", "noteOff"} =>
                    /\ Len(pendingNotes') = nn + 1
                    /\ SubSeq(pendingNotes', 1, nn) = pendingNotes
                    /\ pendingNotes'[nn + 1].channel = f.channel
                    /\ pendingNotes'[nn + 1].key = f.key
                    /\ pendingNotes'[nn + 1].isNoteOn = (f.op = "noteOn")
                    /\ f.op = "noteOn" => pendingNotes'[nn + 1].velocity = f.velocity
               /\ f.op = "cc" =>
                    /\ Len(pendingCCs') = nc + 1
                    /\ SubSeq(pendingCCs', 1, nc) = pendingCCs
                    /\ pendingCCs'[nc + 1].channel = f.channel
                    /\ pendingCCs'[nc + 1].cc = f.cc
                    /\ pendingCCs'[nc + 1].value = f.value

\* C9: MIDI and bulk events are never rate-limited or dropped at enqueue: a
\* call of queueNoteOn, queueNoteOff or queueMidiCC appends exactly one event
\* and a call of queueBulkParamUpdate appends all its pairs in the given order,
\* whatever the clock and the update interval.
C9_NeverDropped == [][C9_Step]_vars

\* the interval is not the default; a parameter update of id 0 was accepted
\* at this clock reading, so that a second one is throttled now, and both
\* pairs of a bulk call made after it are in the queue
C9_Witness ==
    /\ Throttled(now, lastParamUpdate[0], updateInterval)
    /\ updateInterval # DefaultIntervalMs
    /\ Len(pendingParams) = 1
    /\ Len(pendingBulkParams) = 2
    /\ pendingParams[1].src.tag < pendingBulkParams[1].src.tag

\* C10: events of the same kind are sent to JS in the order in which they were
\* appended, within one drain and across drains; note-on and note-off share
\* one queue, so a noteOff queued after a noteOn is never sent before it.
C10_Order ==
    \A i, j \in 1..Len(SentEvents) :
        (i < j /\ SentEvents[i].class = SentEvents[j].class)
            => SentEvents[i].tag < SentEvents[j].tag

\* a noteOn and a later noteOff sent by the same drain, and a third event of
\* the same kind sent by the next drain
C10_Witness ==
    \E i, j, k \in 1..Len(sent) :
        /\ i < j /\ j < k
        /\ sent[i].t = "noteOn" /\ sent[j].t = "noteOff"
        /\ sent[i].drain = sent[j].drain
        /\ Class(sent[k].t) = "note" /\ sent[k].drain # sent[j].drain


(* -------------- SpecRate: one producer thread, a long clock ------------ *)
\* clasp.hpp:78-90  Protocol::queueParamChange, called from one thread
QueueParamChange(paramId, value) ==
    /\ constructed
    /\ \A t \in Producers : pc[t] = "idle"
    /\ LET last == IF InRange(paramId) THEN lastParamUpdate[paramId] ELSE 0
           reject == InRange(paramId) /\ Throttled(now, last, updateInterval)
       IN /\ lastCall' = [id |-> paramId, accepted |-> ~reject]
          /\ IF reject
             THEN UNCHANGED << lastParamUpdate, pendingParams, nextTag, acceptLog >>
             ELSE /\ Len(acceptLog) < MaxRateCalls
                  /\ lastParamUpdate' =
                        IF InRange(paramId)
                        THEN StoreStamp(lastParamUpdate, paramId, now)
                        ELSE lastParamUpdate
                  /\ pendingParams' = PushBack(pendingParams,
                        [id |-> paramId, value |-> value, src |-> Stamp(0)])
                  /\ nextTag' = nextTag + 1
                  /\ acceptLog' = Append(acceptLog,
                        [id |-> paramId, t |-> now, interval |-> updateInterval,
                         hz |-> rate.hz, sets |-> rate.sets])
    /\ UNCHANGED << extVars, now, webVars, callVars, pendingBulkParams, pendingNotes,
                    pendingCCs, updateInterval, queueMutex, pc, frame, drain,
                    sent, swapCount, rate, ticks >>

\* the clock steps tried: the interval in force, or one ms short of it
RateStep(kind) == IF kind = "full" THEN updateInterval ELSE updateInterval - 1

\* std::chrono::steady_clock advances
TickRate(kind) ==
    /\ ticks < MaxRateTicks
    /\ RateStep(kind) > 0
    /\ now' = now + RateStep(kind)
    /\ ticks' = ticks + 1
    /\ lastCall' = NoCall
    /\ UNCHANGED << extVars, webVars, callVars, queueVars, throttleVars,
                    queueMutex, pc, frame, drain, sent, nextTag, swapCount,
                    acceptLog, rate >>

NextRate ==
    \/ \E i \in ParamIds, v \in Values : QueueParamChange(i, v)
    \/ \E k \in {"full", "short"} : TickRate(k)
    \/ \E hz \in HzInputs : SetUpdateRateHz(hz)

InitRate == InitCreated /\ InitDefaultRate

SpecRate == InitRate /\ [][NextRate]_vars

AcceptedFor(id, n) == {i \in 1..n : acceptLog[i].id = id}

\* C3: from one thread, two calls of queueParamChange with the same id in
\* 0..255 that are both accepted have clock readings at least updateInterval
\* apart, and a call less than updateInterval after the last accepted call for
\* its id is rejected.
C3_RateLimit ==
    /\ \A i, j \in 1..Len(acceptLog) :
          (i < j /\ acceptLog[i].id = acceptLog[j].id /\ InRange(acceptLog[i].id))
              => acceptLog[j].t - acceptLog[i].t >= acceptLog[j].interval
    /\ InRange(lastCall.id) =>
          LET n == IF lastCall.accepted THEN Len(acceptLog) - 1 ELSE Len(acceptLog)
          IN \A i \in AcceptedFor(lastCall.id, n) :
                now - acceptLog[i].t < updateInterval => ~lastCall.accepted

\* two updates of one id accepted exactly one interval apart, then a call for
\* that id one ms short of the interval rejected
C3_Witness ==
    /\ InRange(lastCall.id)
    /\ ~lastCall.accepted
    /\ \E i, j \in AcceptedFor(lastCall.id, Len(acceptLog)) :
          /\ i < j
          /\ acceptLog[j].t - acceptLog[i].t = acceptLog[j].interval
          /\ now - acceptLog[j].t = updateInterval - 1

MaxOf(S) == CHOOSE x \in S : \A y \in S : x >= y

\* the clock reading of the last accepted update of id, 0 when there is none
LastAcceptedAt(id) ==
    LET S == AcceptedFor(id, Len(acceptLog))
    IN IF S = {} THEN 0 ELSE acceptLog[MaxOf(S)].t

C11_State ==
    /\ \A id \in TrackedIds : lastParamUpdate[id] = LastAcceptedAt(id)
    /\ InRange(lastCall.id) =>
          LET n == IF lastCall.accepted THEN Len(acceptLog) - 1 ELSE Len(acceptLog)
          IN lastCall.accepted <=>
                \A i \in AcceptedFor(lastCall.id, n) :
                    now - acceptLog[i].t >= updateInterval

C11_Step ==
    lastCall' # NoCall =>
        \A b \in TrackedIds \ {lastCall'.id} :
            lastParamUpdate'[b] = lastParamUpdate[b]

\* C11: the rate limit is per parameter: a queueParamChange call for id a
\* changes only the last-update timestamp of a, every timestamp is that of
\* the last accepted call for its own id, and a call for an id in 0..255 is
\* accepted exactly when no accepted call for that same id is less than the
\* update interval old, whatever was called for other ids.
C11_PerParameter == []C11_State /\ [][C11_Step]_vars

\* an update of id 255 is accepted less than one interval after an accepted
\* update of id 0, and both ids have been updated before
C11_Witness ==
    /\ lastCall = [id |-> 255, accepted |-> TRUE]
    /\ \E i \in AcceptedFor(0, Len(acceptLog)) :
          now - acceptLog[i].t < updateInterval /\ now > acceptLog[i].t
    /\ Cardinality(AcceptedFor(255, Len(acceptLog))) >= 2

InWindow(i) ==
    {j \in 1..Len(acceptLog) :
        /\ acceptLog[j].id = acceptLog[i].id
        /\ acceptLog[j].sets = acceptLog[i].sets
        /\ acceptLog[j].t >= acceptLog[i].t
        /\ acceptLog[j].t < acceptLog[i].t + MsPerSecond}

\* C4: after setUpdateRateHz(hz) with 1 <= hz <= 1000 at most hz updates of one
\* parameter id are accepted in any one-second window; with no call the limit
\* is 60 per second.
C4_AtMostHzPerSecond ==
    \A i \in 1..Len(acceptLog) :
        InRange(acceptLog[i].id) => Cardinality(InWindow(i)) <= acceptLog[i].hz


(* --------------- strings: std::string as a sequence of chars ----------- *)
\* positions are 0-based as in C++; std::string::npos + 1 wraps to 0
NPOS == -1
Q == "\""
BS == "\\"

At(s, i) == s[i + 1]

MinOf(S) == CHOOSE x \in S : \A y \in S : x <= y

\* std::string::find(pat, pos)
Find(s, pat, pos) ==
    IF pos = NPOS THEN NPOS
    ELSE LET hits == {i \in pos..(Len(s) - Len(pat)) :
                         \A k \in 1..Len(pat) : s[i + k] = pat[k]}
         IN IF hits = {} THEN NPOS ELSE MinOf(hits)

\* std::string::substr(pos, count)
Substr(s, pos, count) ==
    LET last == IF pos + count > Len(s) THEN Len(s) ELSE pos + count
    IN SubSeq(s, pos + 1, last)

Digits == <<"0", "1", "2", "3", "4", "5", "6", "7", "8", "9">>
IsDigit(c) == \E d \in 1..10 : Digits[d] = c
DigitValue(c) == (CHOOSE d \in 1..10 : Digits[d] = c) - 1
IsSpace(c) == c \in {" ", "\t", "\n", "\r"}

RECURSIVE SkipSpaces(_, _)
SkipSpaces(s, i) ==
    IF i < Len(s) /\ IsSpace(At(s, i)) THEN SkipSpaces(s, i + 1) ELSE i

RECURSIVE ReadDigits(_, _, _)
ReadDigits(s, i, acc) ==
    IF i < Len(s) /\ IsDigit(At(s, i))
    THEN ReadDigits(s, i + 1, 10 * acc + DigitValue(At(s, i)))
    ELSE acc

\* std::atoi(s.c_str() + pos): blanks, an optional sign, then digits
Atoi(s, pos) ==
    LET i == SkipSpaces(s, pos)
    IN IF i < Len(s) /\ At(s, i) = "-" THEN 0 - ReadDigits(s, i + 1, 0)
       ELSE IF i < Len(s) /\ At(s, i) = "+" THEN ReadDigits(s, i + 1, 0)
       ELSE ReadDigits(s, i, 0)

\* operator<< of an int that is not negative
RECURSIVE ToChars(_)
ToChars(n) == IF n < 10 THEN <<Digits[n + 1]>>
              ELSE ToChars(n \div 10) \o <<Digits[(n % 10) + 1]>>

\* clasp.hpp:377-388  escapeJson
EscapeJson(s) ==
    Concat([i \in 1..Len(s) |->
              IF s[i] = Q THEN <<BS, Q>>
              ELSE IF s[i] = BS THEN <<BS, BS>>
              ELSE IF s[i] = "\n" THEN <<BS, "n">>
              ELSE IF s[i] = "\r" THEN <<BS, "r">>
              ELSE <<s[i]>>])

(* ------------------- JS -> C++: the __clasp binding -------------------- *)
\* clasp.hpp:230-242  the loop that copies the first string of the array
RECURSIVE CopyString(_, _, _)
CopyString(s, i, acc) ==
    IF i >= Len(s) THEN acc
    ELSE IF At(s, i) = Q THEN acc
    ELSE IF At(s, i) = BS /\ i + 1 < Len(s) /\ At(s, i + 1) \in {Q, BS}
         THEN CopyString(s, i + 2, Append(acc, At(s, i + 1)))
    ELSE CopyString(s, i + 1, Append(acc, At(s, i)))

\* clasp.hpp:222-244  handleMessage: the message inside the binding's argument
FirstString(argsJson) ==
    LET start == Find(argsJson, <<Q>>, 0)
    IN IF start # NPOS THEN CopyString(argsJson, start + 1, << >>) ELSE << >>

\* clasp.hpp:252-260 and 276-284  the string value that follows a key
StringField(msgJson, key) ==
    LET keyPos == Find(msgJson, key, 0)
    IN IF keyPos = NPOS THEN << >>
       ELSE LET colonPos == Find(msgJson, <<":">>, keyPos)
                quoteStart == Find(msgJson, <<Q>>, colonPos)
                quoteEnd == Find(msgJson, <<Q>>, quoteStart + 1)
            IN IF quoteStart # NPOS /\ quoteEnd # NPOS
               THEN Substr(msgJson, quoteStart + 1, quoteEnd - quoteStart - 1)
               ELSE << >>

K_t == <<Q, "t", Q>>
K_fn == <<Q, "f", "n", Q>>
K_id == <<Q, "i", "d", Q>>
K_args == <<Q, "a", "r", "g", "s", Q>>
S_call == <<"c", "a", "l", "l">>
S_msg == <<"m", "s", "g">>
S_null == <<"n", "u", "l", "l">>
S_emptyArray == <<"[", "]">>
S_unknown == <<"unknown function: ">>

\* clasp.hpp:251-260  the message type
MsgType(msgJson) == StringField(msgJson, K_t)

\* clasp.hpp:275-284  the function name
FnName(msgJson) == StringField(msgJson, K_fn)

\* clasp.hpp:287-294  the call id
CallId(msgJson) ==
    LET idPos == Find(msgJson, K_id, 0)
    IN IF idPos = NPOS THEN 0
       ELSE LET colonPos == Find(msgJson, <<":">>, idPos)
            IN IF colonPos # NPOS THEN Atoi(msgJson, colonPos + 1) ELSE 0

\* clasp.hpp:303-309  the bracket-counting loop; yields bracketEnd
RECURSIVE BracketEnd(_, _, _)
BracketEnd(s, i, depth) ==
    IF i < Len(s) /\ depth > 0
    THEN BracketEnd(s, i + 1,
            IF At(s, i) = "[" THEN depth + 1
            ELSE IF At(s, i) = "]" THEN depth - 1 ELSE depth)
    ELSE i

\* clasp.hpp:297-312  the args array handed to the handler
ArgsArray(msgJson) ==
    LET argsPos == Find(msgJson, K_args, 0)
    IN IF argsPos = NPOS THEN S_emptyArray
       ELSE LET colonPos == Find(msgJson, <<":">>, argsPos)
                bracketStart == Find(msgJson, <<"[">>, colonPos)
            IN IF bracketStart = NPOS THEN S_emptyArray
               ELSE Substr(msgJson, bracketStart,
                           BracketEnd(msgJson, bracketStart + 1, 1) - bracketStart)

\* clasp.hpp:338-347  the reply message built by sendReply
Reply(callId, result, error) ==
    IF error # << >>
    THEN [t |-> "reply", id |-> callId, kind |-> "error", text |-> EscapeJson(error)]
    ELSE [t |-> "reply", id |-> callId, kind |-> "result",
          text |-> IF result = << >> THEN S_null ELSE result]


(* ----------------------- inputs of the call path ----------------------- *)
FnNames == { <<"f">>, <<"g">> }
HandlerNames == { <<"f">> }
CallIds == {7, 12}
NoArgsField == <<"absent">>
ArgTexts ==
    { <<"[", "]">>,                                       \* []
      <<"[", "[", "1", "]", "]">>,                        \* [[1]]
      <<"[", "{", Q, "i", "d", Q, ":", "3", "}", "]">>,   \* [{"id":3}]
      <<"[", Q, "a", "]", Q, "]">> }                      \* ["a]"]
\* what a registered std::function does when it is invoked
HandlerInputs ==
    { [kind |-> "return", text |-> <<"1">>],
      [kind |-> "return", text |-> << >>],
      [kind |-> "throw", text |-> <<"e">>],       \* a std::exception, what() = "e"
      [kind |-> "throw", text |-> << >>],         \* a std::exception, what() = ""
      [kind |-> "throw_other", text |-> << >>] }  \* not derived from std::exception
NoHandler == [kind |-> "none", text |-> << >>]
Messages ==
    [t : {S_call}, fn : FnNames, args : ArgTexts \cup {NoArgsField}, id : CallIds]
        \cup [t : {S_msg}, fn : {<<"f">>}, args : {NoArgsField}, id : {7}]

\* clasp.hpp:219-220  the message format: t, fn, args, id
Render(m) ==
    <<"{">> \o K_t \o <<":", Q>> \o m.t \o <<Q, ",">>
        \o K_fn \o <<":", Q>> \o m.fn \o <<Q, ",">>
        \o (IF m.args = NoArgsField THEN << >> ELSE K_args \o <<":">> \o m.args \o <<",">>)
        \o K_id \o <<":">> \o ToChars(m.id) \o <<"}">>

\* webview.cpp:299  choc::json::toString(args): an array of one JSON string
BindingArgs(msg) == <<"[", Q>> \o EscapeJson(msg) \o <<Q, "]">>

(* ----------------------------- handleCall ------------------------------ *)
\* clasp.hpp:314-335  look the handler up, invoke it, reply
HandleCall(msgJson) ==
    LET fnName == FnName(msgJson)
        callId == CallId(msgJson)
        argsArray == ArgsArray(msgJson)
    IN IF fnName \in DOMAIN callHandlers
       THEN LET h == callHandlers[fnName]
            IN [got |-> <<argsArray>>,
                out |-> IF h.kind = "return" THEN <<Reply(callId, h.text, << >>)>>
                        ELSE IF h.kind = "throw" THEN <<Reply(callId, << >>, h.text)>>
                        ELSE << >>]
       ELSE [got |-> << >>,
             out |-> <<Reply(callId, << >>, S_unknown \o fnName)>>]

\* clasp.hpp:218-271  handleMessage
HandleMessage(argsJson) ==
    LET msgJson == FirstString(argsJson)
    IN IF msgJson = << >> THEN [got |-> << >>, out |-> << >>]
       ELSE IF MsgType(msgJson) = S_call THEN HandleCall(msgJson)
       ELSE [got |-> << >>, out |-> << >>]

\* JS calls the __clasp binding with one message (clasp.hpp:213-215)
JsCall(m) ==
    /\ pc[UI] = "idle"
    /\ webview
    /\ "__clasp" \in bindings
    /\ Len(calls) < MaxCalls
    /\ LET r == HandleMessage(BindingArgs(Render(m)))
       IN /\ replies' = Evaluate(replies, r.out)
          /\ calls' = IF m.t = S_call
                      THEN Append(calls,
                              [msg |-> m,
                               handler |-> IF m.fn \in DOMAIN callHandlers
                                           THEN callHandlers[m.fn] ELSE NoHandler,
                               got |-> r.got,
                               out |-> r.out])
                      ELSE calls
    /\ UNCHANGED << extVars, now, webVars, callHandlers, queueVars, throttleVars,
                    queueMutex, pc, frame, drain, sent, histVars >>

\* clasp.hpp:69-72  Protocol::onCall
OnCall(name, handler) ==
    /\ constructed
    /\ pc[UI] = "idle"
    /\ callHandlers' = [n \in DOMAIN callHandlers \cup {name} |->
                           IF n = name THEN handler ELSE callHandlers[n]]
    /\ UNCHANGED << extVars, now, webVars, replies, calls, queueVars, throttleVars,
                    queueMutex, pc, frame, drain, sent, histVars >>

\* webview.cpp:293-310  WebView::bind
Bind(bs, name) == IF webview THEN bs \cup {name} ELSE bs

\* clasp.hpp:53-57, 209-216  Protocol::Protocol and setupBinding
ProtocolConstruct ==
    /\ ~constructed
    /\ pc[UI] = "idle"
    /\ constructed' = TRUE
    /\ createdAtConstruction' = webview
    /\ bindings' = Bind(bindings, "__clasp")
    /\ lastParamUpdate' = [i \in TrackedIds |-> 0]
    /\ UNCHANGED << extVars, now, webview, created, callVars, queueVars, updateInterval,
                    queueMutex, pc, frame, drain, sent, histVars >>

\* a WebView has been constructed, no Protocol yet (clasp.hpp:13)
InitCall ==
    /\ InitCommon
    /\ InitDefaultRate
    /\ webview = FALSE
    /\ created = FALSE
    /\ bindings = {}
    /\ constructed = FALSE
    /\ createdAtConstruction = FALSE
    /\ native = NoNative(0)
    /\ platform = "other"

NextCall ==
    \/ Create
    \/ Destroy
    \/ ProtocolConstruct
    \/ \E n \in HandlerNames, h \in HandlerInputs : OnCall(n, h)
    \/ \E m \in Messages : JsCall(m)

SpecCall == InitCall /\ [][NextCall]_vars


(* ---------------------- properties of the call path -------------------- *)
\* C5: with the webview created, every "call" message received by the __clasp
\* binding produces exactly one reply: a result reply when a handler is
\* registered and returns, an error reply when the handler throws, and the
\* error reply "unknown function: <name>" when no handler is registered.
C5_OneReplyPerCall ==
    /\ Len(replies) = Len(calls)
    /\ \A i \in 1..Len(calls) :
          LET c == calls[i] IN
          /\ Len(c.out) = 1
          /\ c.handler.kind = "return" => c.out[1].kind = "result"
          /\ c.handler.kind \in {"throw", "throw_other"} => c.out[1].kind = "error"
          /\ c.handler.kind = "none" =>
                c.out[1].kind = "error" /\ c.out[1].text = S_unknown \o c.msg.fn

\* C6: the reply to a call carries the top-level id of the call message,
\* whatever the args array contains.
C6_ReplyCarriesCallId ==
    \A i \in 1..Len(calls) :
        \A k \in 1..Len(calls[i].out) : calls[i].out[k].id = calls[i].msg.id

\* C7: the handler receives exactly the text of the message's args array, from
\* its opening bracket to the matching closing bracket, and "[]" when the
\* message has no args field.
C7_HandlerGetsArgs ==
    \A i \in 1..Len(calls) :
        \A k \in 1..Len(calls[i].got) :
            calls[i].got[k] = IF calls[i].msg.args = NoArgsField
                              THEN S_emptyArray ELSE calls[i].msg.args

\* C8: a Protocol constructed on a WebView before WebView::create has its
\* __clasp binding registered on that webview once the webview is created.
C8_BoundAfterCreate ==
    (constructed /\ ~createdAtConstruction /\ webview) => "__clasp" \in bindings


(* ------------------- SpecView: the WebView interface ------------------- *)
Builds == {"__APPLE__", "_WIN32", "other"}
Handles == {NoWindow, 11}
Sizes == { <<800, 600>> }
BindNames == {"b"}
NullApi == "nullptr"
Apis == {NullApi, "cocoa", "win32", "x11", "wayland"}

HasWebviewUnchecked(w) == TRUE

\* webview.cpp:242, 249, 271, 276, 282, 288, 294, 321  if (impl_->webview)
HasWebview(w) == w

\* what every WebView operation below leaves alone
ViewFrame ==
    UNCHANGED << now, platform, lockVars, guiVars, pairVars, constructed,
                 createdAtConstruction, callVars, queueVars, throttleVars,
                 queueMutex, pc, frame, drain, histVars >>

\* webview.cpp:241-246  WebView::setParent
SetParent(handle) ==
    /\ pc[UI] = "idle"
    /\ IF ~HasWebview(webview) \/ handle = NoWindow
       THEN /\ ret' = RetOf("setParent", "false", <<handle>>)
            /\ UNCHANGED parentWindow
       ELSE /\ parentWindow' = handle
            /\ ret' = RetOf("setParent", "true", <<handle>>)
    /\ UNCHANGED << webview, created, bindings, native, sent >>
    /\ ViewFrame

\* webview.cpp:248-260  WebView::setSize
SetSize(width, height) ==
    /\ pc[UI] = "idle"
    /\ IF ~HasWebview(webview)
       THEN /\ ret' = RetOf("setSize", "false", <<width, height>>)
            /\ UNCHANGED native
       ELSE /\ native' = [native EXCEPT
                   !.placement = IF parentWindow # NoWindow
                                 THEN "embedded" ELSE "resized",
                   !.size = <<width, height>>]
            /\ ret' = RetOf("setSize", "true", <<width, height>>)
    /\ UNCHANGED << webview, created, bindings, parentWindow, sent >>
    /\ ViewFrame

\* webview.cpp:262-264  WebView::show
Show ==
    /\ pc[UI] = "idle"
    /\ ret' = Ret("show", BoolRet(created))
    /\ UNCHANGED << webview, created, bindings, parentWindow, native, sent >>
    /\ ViewFrame

\* webview.cpp:266-268  WebView::hide
Hide ==
    /\ pc[UI] = "idle"
    /\ ret' = Ret("hide", BoolRet(created))
    /\ UNCHANGED << webview, created, bindings, parentWindow, native, sent >>
    /\ ViewFrame

\* webview.cpp:270-273  WebView::getNativeHandle
GetNativeHandle ==
    /\ pc[UI] = "idle"
    /\ ret' = IF ~HasWebview(webview)
              THEN Ret("getNativeHandle", "null")
              ELSE [Ret("getNativeHandle", "handle") EXCEPT !.handle = native.id]
    /\ UNCHANGED << webview, created, bindings, parentWindow, native, sent >>
    /\ ViewFrame

\* choc::ui::WebView::navigate / setHTML: the page the instance shows
Loaded(n, what) == [n EXCEPT !.page = what]

\* webview.cpp:275-279  WebView::navigate
Navigate ==
    /\ pc[UI] = "idle"
    /\ native' = IF HasWebview(webview) THEN Loaded(native, "url") ELSE native
    /\ ret' = Ret("navigate", "void")
    /\ UNCHANGED << webview, created, bindings, parentWindow, sent >>
    /\ ViewFrame

\* webview.cpp:281-285  WebView::loadHtml
LoadHtml ==
    /\ pc[UI] = "idle"
    /\ native' = IF HasWebview(webview) THEN Loaded(native, "html") ELSE native
    /\ ret' = Ret("loadHtml", "void")
    /\ UNCHANGED << webview, created, bindings, parentWindow, sent >>
    /\ ViewFrame

\* webview.cpp:287-291  WebView::evaluateScript
EvaluateScript ==
    /\ pc[UI] = "idle"
    /\ Len(sent) < MaxScripts
    /\ sent' = IF HasWebview(webview)
               THEN Append(sent, Msg("script", << >>, << >>)) ELSE sent
    /\ ret' = Ret("evaluateScript", "void")
    /\ UNCHANGED << webview, created, bindings, parentWindow, native >>
    /\ ViewFrame

\* webview.cpp:320-326  WebView::postMessage
PostMessage ==
    /\ pc[UI] = "idle"
    /\ Len(sent) < MaxScripts
    /\ sent' = IF HasWebview(webview)
               THEN Append(sent, Msg("message", << >>, << >>)) ELSE sent
    /\ ret' = Ret("postMessage", "void")
    /\ UNCHANGED << webview, created, bindings, parentWindow, native >>
    /\ ViewFrame

\* webview.cpp:293-310  WebView::bind, called by the application
BindName(name) ==
    /\ pc[UI] = "idle"
    /\ bindings' = IF HasWebview(webview) THEN bindings \cup {name} ELSE bindings
    /\ ret' = RetOf("bind", "void", <<name>>)
    /\ UNCHANGED << webview, created, parentWindow, native, sent >>
    /\ ViewFrame

\* a WebView has been constructed (webview.cpp:161-164)
InitView == InitCall

NextView ==
    \/ Create
    \/ Destroy
    \/ \E h \in Handles : SetParent(h)
    \/ \E sz \in Sizes : SetSize(sz[1], sz[2])
    \/ Show
    \/ Hide
    \/ GetNativeHandle
    \/ Navigate
    \/ LoadHtml
    \/ EvaluateScript
    \/ PostMessage
    \/ \E n \in BindNames : BindName(n)

SpecView == InitView /\ [][NextView]_vars

(* ------------------- properties of the WebView interface --------------- *)
C12_State ==
    /\ created <=> webview
    /\ created <=> native.id # NoView
    /\ native.live = IF created THEN {native.id} ELSE {}
    /\ Cardinality(native.live) <= 1
    /\ created => native.scripts = 1

C12_Step ==
    /\ (ret'.op = "create" /\ created) =>
          /\ ret'.value = "true"
          /\ UNCHANGED << webview, created, native, bindings, parentWindow >>
    /\ (ret'.op = "destroy" /\ ~created) =>
          UNCHANGED << webview, created, native, bindings, parentWindow, sent >>
    /\ (ret'.op = "create" /\ ~created) =>
          /\ ret'.value = "true"
          /\ created'
          /\ native'.id > native.made
          /\ native'.live = {native'.id}
          /\ native'.scripts = 1

\* C12: after any sequence of create and destroy, isCreated() is true exactly
\* when a native instance exists, and at most one exists; create() on a
\* created WebView returns true and neither replaces the instance nor injects
\* the init script again; destroy() on a WebView that is not created changes
\* nothing; create() after destroy() builds a fresh instance with the init
\* script injected once.
C12_CreateDestroy == []C12_State /\ [][C12_Step]_vars

\* the second instance: create() has just returned after a destroy()
C12_Witness ==
    /\ ret.op = "create"
    /\ created
    /\ native.made = 2
    /\ native.live = {2}
    /\ native.scripts = 1

NullCheckedOps ==
    {"navigate", "loadHtml", "evaluateScript", "bind", "postMessage",
     "setParent", "setSize", "getNativeHandle", "show", "hide"}

C13_Step ==
    (~created /\ ret'.op \in NullCheckedOps) =>
        /\ UNCHANGED << webview, created, native, bindings, parentWindow, sent >>
        /\ ret'.op \in {"setParent", "setSize", "show", "hide"} =>
              ret'.value = "false"
        /\ ret'.op = "getNativeHandle" => ret'.value = "null"

\* C13: on a WebView that is not created, navigate, loadHtml, evaluateScript,
\* bind and postMessage have no effect, setParent and setSize return false
\* and leave the stored parent unchanged, getNativeHandle returns null, show
\* and hide return false, and none of them creates a native webview.
C13_FailSafely == [][C13_Step]_vars

\* after a destroy(), setParent with a window handle has returned false
C13_Witness ==
    /\ ~created
    /\ native.made >= 1
    /\ ret.op = "setParent"
    /\ ret.args = <<11>>
    /\ ret.value = "false"
    /\ parentWindow = NoWindow

(* ------------------------- GuiHelper::create --------------------------- *)
\* gui_helper.cpp:21-27  the window API the build compares with
PlatformApi(build) ==
    IF build = "__APPLE__" THEN "cocoa"
    ELSE IF build = "_WIN32" THEN "win32" ELSE "x11"

IsApiSupportedFloating(api, isFloating, build) ==
    api = NullApi \/ api = PlatformApi(build)

\* gui_helper.cpp:15-28  GuiHelper::isApiSupported
IsApiSupported(api, isFloating, build) ==
    IF isFloating THEN FALSE
    ELSE IF api = NullApi THEN TRUE
    ELSE api = PlatformApi(build)

\* gui_helper.cpp:11-13  GuiHelper::setWebView(&webview) or (nullptr)
SetWebView(present) ==
    /\ pc[UI] = "idle"
    /\ gui' = [gui EXCEPT !.webview = present]
    /\ ret' = RetOf("setWebView", "void", <<present>>)
    /\ UNCHANGED << webview, created, bindings, parentWindow, native, sent,
                    adj, now, platform, lockVars, pairVars, constructed,
                    createdAtConstruction, callVars, queueVars, throttleVars,
                    queueMutex, pc, frame, drain, histVars >>

\* gui_helper.cpp:42-47  GuiHelper::create
GuiCreate(api, isFloating) ==
    /\ pc[UI] = "idle"
    /\ LET args == <<api, isFloating, gui.webview>> IN
       IF ~IsApiSupported(api, isFloating, platform) \/ ~gui.webview
       THEN /\ ret' = RetOf("GuiHelper::create", "false", args)
            /\ UNCHANGED << webview, created, native, bindings >>
       ELSE /\ CreateBody
            /\ ret' = [RetOf("GuiHelper::create", BoolRet(webview'), args)
                          EXCEPT !.called = TRUE]
    /\ UNCHANGED << parentWindow, sent >>
    /\ ViewFrame

\* a WebView and a GuiHelper have been constructed (webview.cpp:161-164,
\* gui_helper.cpp:8) by one of the three builds
InitGui ==
    /\ InitCommon
    /\ InitDefaultRate
    /\ webview = FALSE
    /\ created = FALSE
    /\ bindings = {}
    /\ constructed = FALSE
    /\ createdAtConstruction = FALSE
    /\ native = NoNative(0)
    /\ platform \in Builds

NextGui ==
    \/ Create
    \/ Destroy
    \/ \E present \in BOOLEAN : SetWebView(present)
    \/ \E api \in Apis, isFloating \in BOOLEAN : GuiCreate(api, isFloating)

SpecGui == InitGui /\ [][NextGui]_vars

(* ---------------------- properties of GuiHelper ----------------------- *)
C14_State ==
    ret.op = "GuiHelper::create" =>
        LET api == ret.args[1]
            isFloating == ret.args[2]
            hasWebview == ret.args[3]
            refused == \/ isFloating
                       \/ api # NullApi /\ api # PlatformApi(platform)
                       \/ ~hasWebview
        IN IF refused
           THEN ret.value = "false" /\ ~ret.called
           ELSE ret.called /\ ret.value = "true" /\ created

C14_Step ==
    (ret'.op = "GuiHelper::create" /\ ~ret'.called) =>
        UNCHANGED << webview, created, native, bindings >>

\* C14: GuiHelper::create(api, isFloating) returns false without calling
\* WebView::create when isFloating is true, when api is a non-null name other
\* than the platform's window API, or when no webview has been set; otherwise
\* it returns the result of WebView::create; a null api with isFloating false
\* counts as supported.
C14_GuiCreate == []C14_State /\ [][C14_Step]_vars

\* create(nullptr, false) with a webview set has created the native webview
C14_Witness ==
    /\ ret.op = "GuiHelper::create"
    /\ ret.args = <<NullApi, FALSE, TRUE>>
    /\ ret.called
    /\ ret.value = "true"
    /\ native.made = 1

(* ------------------ SpecSize: GuiHelper's size limits ------------------ *)
\* uint32_t widths and heights tried, around the default limits
SizeValues == {0, 200, 4096, 5000}

AdjustSizeMaxWidthTwice(g, width, height) ==
    LET w1 == IF width < g.minWidth THEN g.minWidth ELSE width
        h1 == IF height < g.minHeight THEN g.minHeight ELSE height
        w2 == IF w1 > g.maxWidth THEN g.maxWidth ELSE w1
        h2 == IF h1 > g.maxWidth THEN g.maxWidth ELSE h1
    IN <<w2, h2>>

\* gui_helper.cpp:80-87  GuiHelper::adjustSize: the four assignments in order
AdjustSize(g, width, height) ==
    LET w1 == IF width < g.minWidth THEN g.minWidth ELSE width
        h1 == IF height < g.minHeight THEN g.minHeight ELSE height
        w2 == IF w1 > g.maxWidth THEN g.maxWidth ELSE w1
        h2 == IF h1 > g.maxHeight THEN g.maxHeight ELSE h1
    IN <<w2, h2>>

\* what the GuiHelper size operations leave alone
SizeFrame ==
    UNCHANGED << webVars, parentWindow, native, platform, lockVars, pairVars, sent, now,
                 callVars, queueVars, throttleVars, queueMutex, pc, frame,
                 drain, histVars >>

\* gui_helper.cpp:160-163  GuiHelper::setMinSize
SetMinSize(width, height) ==
    /\ gui' = [gui EXCEPT !.minWidth = width, !.minHeight = height]
    /\ adj' = NoAdj
    /\ ret' = RetOf("setMinSize", "void", <<width, height>>)
    /\ SizeFrame

\* gui_helper.cpp:165-168  GuiHelper::setMaxSize
SetMaxSize(width, height) ==
    /\ gui' = [gui EXCEPT !.maxWidth = width, !.maxHeight = height]
    /\ adj' = NoAdj
    /\ ret' = RetOf("setMaxSize", "void", <<width, height>>)
    /\ SizeFrame

\* gui_helper.cpp:80-87  adjustSize(&width, &height)
GuiAdjustSize(width, height) ==
    /\ adj' = [in |-> <<width, height>>, out |-> AdjustSize(gui, width, height),
               again |-> << >>]
    /\ ret' = RetOf("adjustSize", "true", <<width, height>>)
    /\ UNCHANGED gui
    /\ SizeFrame

\* gui_helper.cpp:80-87  adjustSize called again on what it returned
AdjustSizeAgain ==
    /\ adj.out # << >>
    /\ adj.again = << >>
    /\ adj' = [adj EXCEPT !.again = AdjustSize(gui, adj.out[1], adj.out[2])]
    /\ ret' = RetOf("adjustSize", "true", adj.out)
    /\ UNCHANGED gui
    /\ SizeFrame

\* a GuiHelper has been constructed (gui_helper.cpp:8, gui_helper.h:47-56)
InitSize == InitCall

NextSize ==
    \/ \E w \in SizeValues, h \in SizeValues : SetMinSize(w, h)
    \/ \E w \in SizeValues, h \in SizeValues : SetMaxSize(w, h)
    \/ \E w \in SizeValues, h \in SizeValues : GuiAdjustSize(w, h)
    \/ AdjustSizeAgain

SpecSize == InitSize /\ [][NextSize]_vars

LimitsOrdered == gui.minWidth <= gui.maxWidth /\ gui.minHeight <= gui.maxHeight

\* C15: whenever minWidth <= maxWidth and minHeight <= maxHeight, adjustSize
\* returns a width in [minWidth, maxWidth] and a height in [minHeight,
\* maxHeight], returns an input that is already in range unchanged, and
\* applied to its own result returns that result.
C15_Clamp ==
    (LimitsOrdered /\ adj.out # << >>) =>
        /\ adj.out[1] >= gui.minWidth /\ adj.out[1] <= gui.maxWidth
        /\ adj.out[2] >= gui.minHeight /\ adj.out[2] <= gui.maxHeight
        /\ (/\ adj.in[1] >= gui.minWidth /\ adj.in[1] <= gui.maxWidth
            /\ adj.in[2] >= gui.minHeight /\ adj.in[2] <= gui.maxHeight)
              => adj.out = adj.in
        /\ adj.again # << >> => adj.again = adj.out

\* limits set by the application, a width above the maximum and a height
\* below the minimum clamped, and the result adjusted again
C15_Witness ==
    /\ LimitsOrdered
    /\ gui.minHeight = 200 /\ gui.maxHeight = 5000 /\ gui.maxWidth = 4096
    /\ adj.in = <<5000, 0>>
    /\ adj.out = <<4096, 200>>
    /\ adj.again = adj.out

(* ------------- WebView's own queue (webview.cpp:328-429) --------------- *)
QueueParamUpdateNoReturn(w, paramId, value, t, src) ==
    [w EXCEPT
        !.lastParamUpdate =
            IF InRange(paramId)
               /\ ~Throttled(t, w.lastParamUpdate[paramId], w.updateInterval)
            THEN StoreStamp(@, paramId, t) ELSE @,
        !.pendingParams =
            PushBack(@, [id |-> paramId, value |-> value, src |-> src])]

\* webview.cpp:328-340  WebView::queueParamUpdate
QueueParamUpdate(w, paramId, value, t, src) ==
    IF InRange(paramId) /\ Throttled(t, w.lastParamUpdate[paramId], w.updateInterval)
    THEN w
    ELSE [w EXCEPT
            !.lastParamUpdate = IF InRange(paramId)
                                THEN StoreStamp(@, paramId, t) ELSE @,
            !.pendingParams =
                PushBack(@, [id |-> paramId, value |-> value, src |-> src])]

\* webview.cpp:342-345  WebView::queueBulkParamUpdate
WvQueueBulkParamUpdate(w, pairs) ==
    [w EXCEPT !.pendingBulkParams = InsertAtEnd(@, pairs)]

\* webview.cpp:347-355  WebView::queueNoteOn and queueNoteOff
WvQueueNote(w, channel, key, velocity, isNoteOn, src) ==
    [w EXCEPT !.pendingNotes =
        PushBack(@, [channel |-> channel, key |-> key, velocity |-> velocity,
                     isNoteOn |-> isNoteOn, src |-> src])]

\* webview.cpp:357-360  WebView::queueMidiCC
WvQueueMidiCC(w, channel, cc, value, src) ==
    [w EXCEPT !.pendingCCs =
        PushBack(@, [channel |-> channel, cc |-> cc, value |-> value, src |-> src])]

\* webview.cpp:383-388  one onParamChange call per update
WvParamMsgs(ps) ==
    [i \in 1..Len(ps) |->
        Msg("onParamChange", <<ps[i].id, ps[i].value>>, <<ps[i].src>>)]

\* webview.cpp:391-401  one onParamsSync call for all the pairs, none when empty
WvBulkMsgs(bs) ==
    IF bs = << >> THEN << >>
    ELSE << Msg("onParamsSync", [i \in 1..Len(bs) |-> <<bs[i].first, bs[i].second>>],
                [i \in 1..Len(bs) |-> bs[i].src]) >>

\* webview.cpp:404-414  onNoteOn or onNoteOff per note event
WvNoteMsgs(ns) ==
    [i \in 1..Len(ns) |->
        IF ns[i].isNoteOn
        THEN Msg("onNoteOn", <<ns[i].channel, ns[i].key, ns[i].velocity>>, <<ns[i].src>>)
        ELSE Msg("onNoteOff", <<ns[i].channel, ns[i].key>>, <<ns[i].src>>)]

\* webview.cpp:417-422  one onMidiCC call per CC event
WvCCMsgs(cs) ==
    [i \in 1..Len(cs) |->
        Msg("onMidiCC", <<cs[i].channel, cs[i].cc, cs[i].value>>, <<cs[i].src>>)]

ProcessQueuedUpdatesUnchecked(w, hasView) ==
    [w EXCEPT !.pendingParams = << >>, !.pendingBulkParams = << >>,
              !.pendingNotes = << >>, !.pendingCCs = << >>,
              !.sent = IF hasView
                       THEN @ \o SendOrder(WvParamMsgs(w.pendingParams),
                                           WvBulkMsgs(w.pendingBulkParams),
                                           WvNoteMsgs(w.pendingNotes),
                                           WvCCMsgs(w.pendingCCs))
                       ELSE @]

\* webview.cpp:362-423  WebView::processQueuedUpdates
ProcessQueuedUpdates(w, hasView) ==
    IF ~hasView THEN w
    ELSE [w EXCEPT
            !.pendingParams = ClearedAfterMove(@),
            !.pendingBulkParams = ClearedAfterMove(@),
            !.pendingNotes = ClearedAfterMove(@),
            !.pendingCCs = ClearedAfterMove(@),
            !.sent = @ \o SendOrder(WvParamMsgs(w.pendingParams),
                                    WvBulkMsgs(w.pendingBulkParams),
                                    WvNoteMsgs(w.pendingNotes),
                                    WvCCMsgs(w.pendingCCs))]

\* webview.cpp:425-429  WebView::setUpdateRateHz
WvSetUpdateRateHz(w, hz) ==
    [w EXCEPT !.updateInterval = NewInterval(hz, @)]

(* -------- SpecPair: one thread gives a Protocol and a WebView ---------- *)
(* -------- the same calls, the Protocol first                  ---------- *)
PairParamIds == {0}
PairValues == {1, 2}
PairHzInputs == {0, 3}
\* clock readings: the start, one ms short of the default interval later, and
\* the default interval later
PairClocks == {StartClock, StartClock + DefaultIntervalMs - 1,
               StartClock + DefaultIntervalMs}
PairBulkInputs == { << >>, << <<0, 1>> >>, << <<0, 1>>, <<1, 1>> >> }

PairRoom(n) == nextTag + n <= MaxPairEvents

\* what the queue calls of SpecPair leave alone
PairFrame ==
    UNCHANGED << webVars, parentWindow, native, platform, lockVars, guiVars, now,
                 callVars, queueMutex, pc, frame, drain, swapCount, acceptLog,
                 lastCall, rate, ticks >>

\* clasp.hpp:78-90 and webview.cpp:328-340  queueParamChange(paramId, value)
\* on the Protocol, queueParamUpdate(paramId, value) on the WebView
PairQueueParam(paramId, value) ==
    /\ constructed
    /\ PairRoom(1)
    /\ LET last == IF InRange(paramId) THEN lastParamUpdate[paramId] ELSE 0
           reject == InRange(paramId) /\ Throttled(now, last, updateInterval)
           w == QueueParamUpdate(wv, paramId, value, now, Stamp(0))
       IN /\ IF reject
             THEN UNCHANGED << lastParamUpdate, pendingParams >>
             ELSE /\ lastParamUpdate' =
                        IF InRange(paramId)
                        THEN StoreStamp(lastParamUpdate, paramId, now)
                        ELSE lastParamUpdate
                  /\ pendingParams' = PushBack(pendingParams,
                        [id |-> paramId, value |-> value, src |-> Stamp(0)])
          /\ wv' = w
          /\ paramCalls' = Append(paramCalls,
                [id |-> paramId, value |-> value, tag |-> nextTag, t |-> now,
                 protocolLast |-> last,
                 protocolInterval |-> updateInterval,
                 webviewLast |-> IF InRange(paramId)
                                 THEN wv.lastParamUpdate[paramId] ELSE 0,
                 webviewInterval |-> wv.updateInterval,
                 protocol |-> pendingParams' # pendingParams,
                 webview |-> w.pendingParams # wv.pendingParams])
    /\ nextTag' = nextTag + 1
    /\ ret' = NoRet
    /\ UNCHANGED << pendingBulkParams, pendingNotes, pendingCCs, updateInterval,
                    sent >>
    /\ PairFrame

\* clasp.hpp:96-99 and webview.cpp:342-345  queueBulkParamUpdate(params)
PairQueueBulk(params) ==
    /\ constructed
    /\ PairRoom(Len(params))
    /\ pendingBulkParams' = InsertAtEnd(pendingBulkParams, StampedPairs(params))
    /\ wv' = WvQueueBulkParamUpdate(wv, StampedPairs(params))
    /\ nextTag' = nextTag + Len(params)
    /\ ret' = NoRet
    /\ UNCHANGED << pendingParams, pendingNotes, pendingCCs, throttleVars, sent,
                    paramCalls >>
    /\ PairFrame

\* clasp.hpp:105-108 and webview.cpp:347-350  queueNoteOn(channel, key, velocity)
PairQueueNoteOn(channel, key, velocity) ==
    /\ constructed
    /\ PairRoom(1)
    /\ pendingNotes' = PushBack(pendingNotes,
            [channel |-> channel, key |-> key, velocity |-> velocity,
             isNoteOn |-> TRUE, src |-> Stamp(0)])
    /\ wv' = WvQueueNote(wv, channel, key, velocity, TRUE, Stamp(0))
    /\ nextTag' = nextTag + 1
    /\ ret' = NoRet
    /\ UNCHANGED << pendingParams, pendingBulkParams, pendingCCs, throttleVars,
                    sent, paramCalls >>
    /\ PairFrame

\* clasp.hpp:114-117 and webview.cpp:352-355  queueNoteOff(channel, key)
PairQueueNoteOff(channel, key) ==
    /\ constructed
    /\ PairRoom(1)
    /\ pendingNotes' = PushBack(pendingNotes,
            [channel |-> channel, key |-> key, velocity |-> 0,
             isNoteOn |-> FALSE, src |-> Stamp(0)])
    /\ wv' = WvQueueNote(wv, channel, key, 0, FALSE, Stamp(0))
    /\ nextTag' = nextTag + 1
    /\ ret' = NoRet
    /\ UNCHANGED << pendingParams, pendingBulkParams, pendingCCs, throttleVars,
                    sent, paramCalls >>
    /\ PairFrame

\* clasp.hpp:123-126 and webview.cpp:357-360  queueMidiCC(channel, cc, value)
PairQueueMidiCC(channel, cc, value) ==
    /\ constructed
    /\ PairRoom(1)
    /\ pendingCCs' = PushBack(pendingCCs,
            [channel |-> channel, cc |-> cc, value |-> value, src |-> Stamp(0)])
    /\ wv' = WvQueueMidiCC(wv, channel, cc, value, Stamp(0))
    /\ nextTag' = nextTag + 1
    /\ ret' = NoRet
    /\ UNCHANGED << pendingParams, pendingBulkParams, pendingNotes, throttleVars,
                    sent, paramCalls >>
    /\ PairFrame

\* clasp.hpp:132-189 and webview.cpp:362-423  processQueue() on the Protocol,
\* whose webview_ pointer is set, then processQueuedUpdates() on the WebView
PairDrain ==
    /\ constructed
    /\ sent' = Evaluate(sent, SendOrder(ParamMsgs(pendingParams),
                                        BulkMsgs(pendingBulkParams),
                                        NoteMsgs(pendingNotes), CCMsgs(pendingCCs)))
    /\ pendingParams' = ClearedAfterMove(pendingParams)
    /\ pendingBulkParams' = ClearedAfterMove(pendingBulkParams)
    /\ pendingNotes' = ClearedAfterMove(pendingNotes)
    /\ pendingCCs' = ClearedAfterMove(pendingCCs)
    /\ wv' = ProcessQueuedUpdates(wv, webview)
    /\ swapCount' =
          IF /\ AllPendingEmpty(pendingParams, pendingBulkParams, pendingNotes,
                                pendingCCs)
             /\ wv' = wv
          THEN swapCount ELSE swapCount + 1
    /\ ret' = Ret("processQueue", "void")
    /\ UNCHANGED << webVars, parentWindow, native, platform, lockVars, guiVars, now,
                    callVars, queueMutex, pc, frame, drain, throttleVars,
                    nextTag, acceptLog, lastCall, rate, ticks, paramCalls >>

\* clasp.hpp:202-206 and webview.cpp:425-429  setUpdateRateHz(hz) on both
PairSetUpdateRateHz(hz) ==
    /\ constructed
    /\ updateInterval' = NewInterval(hz, updateInterval)
    /\ wv' = WvSetUpdateRateHz(wv, hz)
    /\ ret' = NoRet
    /\ UNCHANGED << webVars, parentWindow, native, platform, lockVars, guiVars, now,
                    callVars, queueMutex, pc, frame, drain, queueVars,
                    lastParamUpdate, sent, histVars, paramCalls >>

\* std::chrono::steady_clock advances to a later reading between two calls
PairTick(t) ==
    /\ t > now
    /\ now' = t
    /\ ret' = NoRet
    /\ UNCHANGED << webVars, parentWindow, native, platform, lockVars, guiVars, callVars,
                    queueMutex, pc, frame, drain, queueVars, throttleVars, sent,
                    histVars, pairVars >>

\* WebView webview; Protocol protocol(&webview);  (clasp.hpp:13-14)
InitPair ==
    /\ InitCommon
    /\ InitDefaultRate
    /\ webview = FALSE
    /\ created = FALSE
    /\ bindings = {}
    /\ constructed = TRUE
    /\ createdAtConstruction = FALSE
    /\ native = NoNative(0)
    /\ platform = "other"

NextPair ==
    \/ Create
    \/ Destroy
    \/ \E i \in PairParamIds, v \in PairValues : PairQueueParam(i, v)
    \/ \E b \in PairBulkInputs : PairQueueBulk(b)
    \/ \E c \in Channels, k \in Keys, v \in Velocities : PairQueueNoteOn(c, k, v)
    \/ \E c \in Channels, k \in Keys : PairQueueNoteOff(c, k)
    \/ \E c \in Channels, n \in CCNumbers, v \in CCValues : PairQueueMidiCC(c, n, v)
    \/ PairDrain
    \/ \E hz \in PairHzInputs : PairSetUpdateRateHz(hz)
    \/ \E t \in PairClocks : PairTick(t)

SpecPair == InitPair /\ [][NextPair]_vars

(* ------------------------ properties of the pair ----------------------- *)
Kind(type) ==
    CASE type \in {"param", "onParamChange"} -> "param"
      [] type \in {"params", "onParamsSync"} -> "bulk"
      [] type \in {"noteOn", "onNoteOn"} -> "noteOn"
      [] type \in {"noteOff", "onNoteOff"} -> "noteOff"
      [] type \in {"midiCC", "onMidiCC"} -> "cc"
      [] OTHER -> type

\* what a log of evaluated scripts delivered: the events, and at which drain
Delivered(log) ==
    [i \in 1..Len(log) |->
        [kind |-> Kind(log[i].t), body |-> log[i].body, src |-> log[i].src,
         drain |-> log[i].drain]]

StampsOf(log) == Concat([i \in 1..Len(log) |-> log[i].src])

WvPendingEvents(w) ==
    SrcOf(w.pendingParams) \o SrcOf(w.pendingBulkParams) \o SrcOf(w.pendingNotes)
        \o SrcOf(w.pendingCCs)

\* C16: given the same queue calls, clock readings, setUpdateRateHz calls,
\* drain calls and create/destroy steps, the Protocol and the WebView accept
\* and reject the same parameter updates and deliver the same events, in the
\* same order, at the same drain calls.
C16_SameMechanism ==
    /\ \A i \in 1..Len(paramCalls) : paramCalls[i].protocol = paramCalls[i].webview
    /\ Delivered(sent) = Delivered(wv.sent)

\* the tags of the events the WebView's queues accepted
WvQueuedTags ==
    (0..(nextTag - 1)) \ {paramCalls[i].tag : i \in {k \in 1..Len(paramCalls) :
                                                        ~paramCalls[k].webview}}

C17_State ==
    \A tag \in WvQueuedTags :
        Occurrences(WvPendingEvents(wv), tag) + Occurrences(StampsOf(wv.sent), tag) = 1

C17_Step ==
    /\ ret'.op = "destroy" => wv' = wv
    /\ (ret'.op = "processQueue" /\ ~webview) => wv' = wv
    /\ (ret'.op = "processQueue" /\ webview) =>
          /\ AllPendingEmpty(wv'.pendingParams, wv'.pendingBulkParams,
                             wv'.pendingNotes, wv'.pendingCCs)
          /\ \A i \in 1..Len(WvPendingEvents(wv)) :
                /\ Occurrences(StampsOf(wv.sent), WvPendingEvents(wv)[i].tag) = 0
                /\ Occurrences(StampsOf(wv'.sent), WvPendingEvents(wv)[i].tag) = 1

\* C17: WebView::processQueuedUpdates called while the webview is not
\* created, and WebView::destroy, leave the WebView's four pending queues
\* unchanged, and every event queued is delivered, once, by the first
\* processQueuedUpdates call made while the webview is created.
C17_SurvivesNoWebview == []C17_State /\ [][C17_Step]_vars

\* the WebView has just delivered an event that a drain call made while no
\* native webview existed had left in its queue: the Protocol, drained by
\* that same call, no longer has it
C17_Witness ==
    /\ ret.op = "processQueue"
    /\ webview
    /\ \E i \in 1..Len(StampsOf(wv.sent)) :
          LET tag == StampsOf(wv.sent)[i].tag
          IN /\ Occurrences(StampsOf(sent), tag) = 0
             /\ Occurrences(PendingEvents, tag) = 0

\* the throttle's condition for a recorded call, on each object
ProtocolThrottled(c) ==
    InRange(c.id) /\ c.t - c.protocolLast < c.protocolInterval

WebviewThrottled(c) ==
    InRange(c.id) /\ c.t - c.webviewLast < c.webviewInterval

\* the parameter messages of a log are updates that were not throttled
OnlyAccepted(log, isThrottled(_)) ==
    \A k \in 1..Len(log) :
        Kind(log[k].t) = "param" =>
            \E i \in 1..Len(paramCalls) :
                /\ paramCalls[i].tag = log[k].src[1].tag
                /\ log[k].body = <<paramCalls[i].id, paramCalls[i].value>>
                /\ ~isThrottled(paramCalls[i])

C18_State ==
    /\ \A i \in 1..Len(paramCalls) :
          LET c == paramCalls[i] IN
          /\ ProtocolThrottled(c) =>
                Occurrences(PendingEvents, c.tag) + Occurrences(StampsOf(sent), c.tag) = 0
          /\ WebviewThrottled(c) =>
                Occurrences(WvPendingEvents(wv), c.tag)
                    + Occurrences(StampsOf(wv.sent), c.tag) = 0
    /\ OnlyAccepted(sent, ProtocolThrottled)
    /\ OnlyAccepted(wv.sent, WebviewThrottled)

C18_Step ==
    Len(paramCalls') = Len(paramCalls) + 1 =>
        LET c == paramCalls'[Len(paramCalls')] IN
        /\ ProtocolThrottled(c) => UNCHANGED << queueVars, lastParamUpdate, sent >>
        /\ WebviewThrottled(c) => wv' = wv

\* C18: a parameter update rejected by the throttle leaves the pending queues
\* and every last-update timestamp unchanged, and its value is never pending
\* or sent afterwards: every parameter message sent is that of a call that was
\* not throttled, so the last value queued is delivered only if that call was
\* accepted.
C18_RejectedIsDiscarded == []C18_State /\ [][C18_Step]_vars

\* value 1 was accepted, value 2 for the same id was throttled one ms short
\* of the interval, and the drain that followed delivered value 1 only
C18_Witness ==
    /\ ret.op = "processQueue"
    /\ webview
    /\ Len(paramCalls) = 2
    /\ paramCalls[1].value = 1 /\ ~ProtocolThrottled(paramCalls[1])
    /\ paramCalls[2].value = 2 /\ ProtocolThrottled(paramCalls[2])
    /\ WebviewThrottled(paramCalls[2])
    /\ paramCalls[2].t > paramCalls[1].t
    /\ Len(sent) = 1 /\ sent[1].body = <<0, 1>>
    /\ Len(wv.sent) = 1 /\ wv.sent[1].body = <<0, 1>>
    /\ pendingParams = << >> /\ wv.pendingParams = << >>

Rank(kind) ==
    CASE kind = "param" -> 1
      [] kind = "bulk" -> 2
      [] kind \in {"noteOn", "noteOff"} -> 3
      [] kind = "cc" -> 4

OrderedByKind(log) ==
    \A i, j \in 1..Len(log) :
        (i < j /\ log[i].drain = log[j].drain)
            => Rank(Kind(log[i].t)) <= Rank(Kind(log[j].t))

\* C19: within one processQueue or processQueuedUpdates call the events are
\* sent by kind: the parameter updates, then the bulk update, then the note
\* events, then the MIDI CC events, whatever the order they were queued in.
C19_KindOrder == OrderedByKind(sent) /\ OrderedByKind(wv.sent)

QueuedLaterSentEarlier(log) ==
    \E i, j \in 1..Len(log) :
        /\ i < j
        /\ log[i].drain = log[j].drain
        /\ Kind(log[i].t) = "param" /\ Kind(log[j].t) = "cc"
        /\ log[i].src[1].tag > log[j].src[1].tag

\* a MIDI CC queued before a parameter update was sent after it by the same
\* drain, on both objects
C19_Witness == QueuedLaterSentEarlier(sent) /\ QueuedLaterSentEarlier(wv.sent)

IsBulkMsg(m) == Kind(m.t) = "bulk"

\* the bulk messages a drain step appended to a log
NewBulkMsgs(before, after) ==
    SelectSeq(SubSeq(after, Len(before) + 1, Len(after)), IsBulkMsg)

\* the pairs a drain took from a queue went out as one message, in order
Coalesced(taken, left, before, after) ==
    IF left = taken
    THEN NewBulkMsgs(before, after) = << >>
    ELSE /\ left = << >>
         /\ Len(NewBulkMsgs(before, after)) = 1
         /\ NewBulkMsgs(before, after)[1].body =
               [i \in 1..Len(taken) |-> <<taken[i].first, taken[i].second>>]

C20_Step ==
    ret'.op = "processQueue" =>
        /\ Coalesced(pendingBulkParams, pendingBulkParams', sent, sent')
        /\ Coalesced(wv.pendingBulkParams, wv'.pendingBulkParams, wv.sent, wv'.sent)

\* C20: all the pairs passed to queueBulkParamUpdate since the previous drain,
\* by one or several calls, are sent by the drain that takes them as a single
\* bulk message listing them in the order queued, and a drain that takes no
\* pair sends no bulk message.
C20_BulkCoalesced == [][C20_Step]_vars


(* -------- SpecDispatch: onCall and handleCall, step by step ------------ *)
DispThreads == {UI, "p1"}
DispatchHandlers ==
    { [kind |-> "return", text |-> <<"1">>],
      [kind |-> "throw", text |-> <<"e">>],
      [kind |-> "throw_other", text |-> << >>],
      [kind |-> "onCall", text |-> <<"1">>] }   \* calls onCall("g", ...), then returns "1"
NestedName == <<"g">>
NestedHandler == [kind |-> "return", text |-> << >>]
DispatchMessages ==
    { m \in Messages : m.t = S_call /\ m.args = <<"[", "]">> /\ m.id = 7 }
\* std::mutex::lock by the thread that owns the mutex is undefined behaviour;
\* the builds either never return from it, or throw std::system_error
\* (resource_deadlock_would_occur)
RelockOutcomes == {"deadlock", "system_error"}
S_deadlock == <<"d">>

DispFrame ==
    UNCHANGED << viewVars, guiVars, pairVars, wvLock, now, webVars, calls, queueVars,
                 throttleVars, queueMutex, pc, frame, drain, sent, histVars >>

\* clasp.hpp:71  callHandlers_[name] = std::move(handler)
Registered(hs, name, handler) ==
    [n \in DOMAIN hs \cup {name} |-> IF n = name THEN handler ELSE hs[n]]

\* clasp.hpp:69  a thread calls onCall(name, handler)
OnCall_Call(t, name, handler) ==
    /\ constructed
    /\ disp.pc[t] = "idle"
    /\ disp.onCalls < MaxOnCalls
    /\ disp' = [disp EXCEPT !.pc[t] = "onCall_lock",
                            !.reg[t] = [name |-> name, handler |-> handler,
                                        back |-> "idle"],
                            !.onCalls = @ + 1]
    /\ UNCHANGED << callHandlers, replies, handlersMutex >>
    /\ DispFrame

\* clasp.hpp:70  std::lock_guard<std::mutex> lock(handlersMutex_), mutex free
OnCall_Lock(t) ==
    /\ disp.pc[t] = "onCall_lock"
    /\ handlersMutex = NoOwner
    /\ handlersMutex' = t
    /\ disp' = [disp EXCEPT !.pc[t] = "onCall_store"]
    /\ UNCHANGED << callHandlers, replies >>
    /\ DispFrame

\* clasp.hpp:70  the same statement when the calling thread owns the mutex
OnCall_Relock(t) ==
    /\ disp.pc[t] = "onCall_lock"
    /\ handlersMutex = t
    /\ \E outcome \in RelockOutcomes :
          disp' = IF outcome = "deadlock"
                  THEN [disp EXCEPT !.pc[t] = "deadlocked"]
                  ELSE [disp EXCEPT !.pc[t] = "handler",
                                    !.call.handler = [kind |-> "throw",
                                                      text |-> S_deadlock]]
    /\ UNCHANGED << callHandlers, replies, handlersMutex >>
    /\ DispFrame

\* clasp.hpp:71-72  the assignment, then the lock_guard's release
OnCall_Store(t) ==
    /\ disp.pc[t] = "onCall_store"
    /\ handlersMutex = t
    /\ callHandlers' = Registered(callHandlers, disp.reg[t].name, disp.reg[t].handler)
    /\ handlersMutex' = NoOwner
    /\ disp' = [disp EXCEPT !.pc[t] = disp.reg[t].back]
    /\ UNCHANGED replies
    /\ DispFrame

\* clasp.hpp:213-215, 262-263, 273-312  JS calls the binding; handleCall
\* extracts the function name and the call id
Dispatch_Call(m) ==
    /\ constructed
    /\ webview
    /\ "__clasp" \in bindings
    /\ disp.pc[UI] = "idle"
    /\ disp.started < MaxCalls
    /\ LET msgJson == FirstString(BindingArgs(Render(m)))
       IN disp' = [disp EXCEPT !.pc[UI] = "handleCall_lock",
                               !.call = [fn |-> FnName(msgJson),
                                         id |-> CallId(msgJson),
                                         handler |-> NoHandler,
                                         result |-> << >>],
                               !.started = @ + 1]
    /\ UNCHANGED << callHandlers, replies, handlersMutex >>
    /\ DispFrame

\* clasp.hpp:317  std::lock_guard<std::mutex> lock(handlersMutex_)
HandleCall_Lock ==
    /\ disp.pc[UI] = "handleCall_lock"
    /\ handlersMutex = NoOwner
    /\ handlersMutex' = UI
    /\ disp' = [disp EXCEPT !.pc[UI] = "handleCall_find"]
    /\ UNCHANGED << callHandlers, replies >>
    /\ DispFrame

\* clasp.hpp:318-321, 327-330  the lookup; invoke the handler, or reply
\* "unknown function" and return
HandleCall_Find ==
    /\ disp.pc[UI] = "handleCall_find"
    /\ handlersMutex = UI
    /\ IF disp.call.fn \in DOMAIN callHandlers
       THEN /\ disp' = [disp EXCEPT !.pc[UI] = "handler",
                                    !.call.handler = callHandlers[disp.call.fn]]
            /\ UNCHANGED << replies, handlersMutex >>
       ELSE /\ replies' = Evaluate(replies,
                             <<Reply(disp.call.id, << >>, S_unknown \o disp.call.fn)>>)
            /\ handlersMutex' = NoOwner
            /\ disp' = [disp EXCEPT !.pc[UI] = "idle"]
    /\ UNCHANGED callHandlers
    /\ DispFrame

\* clasp.hpp:321, 331  the handler returns its result; the block ends
Handler_Returns ==
    /\ disp.pc[UI] = "handler"
    /\ disp.call.handler.kind = "return"
    /\ handlersMutex = UI
    /\ handlersMutex' = NoOwner
    /\ disp' = [disp EXCEPT !.pc[UI] = "handleCall_reply",
                            !.call.result = disp.call.handler.text]
    /\ UNCHANGED << callHandlers, replies >>
    /\ DispFrame

\* clasp.hpp:322-326  the handler throws; a std::exception is answered with an
\* error reply under the lock, any other exception leaves handleCall
Handler_Throws ==
    /\ disp.pc[UI] = "handler"
    /\ disp.call.handler.kind \in {"throw", "throw_other"}
    /\ handlersMutex = UI
    /\ replies' = IF disp.call.handler.kind = "throw"
                  THEN Evaluate(replies,
                          <<Reply(disp.call.id, << >>, disp.call.handler.text)>>)
                  ELSE replies
    /\ handlersMutex' = NoOwner
    /\ disp' = [disp EXCEPT !.pc[UI] = "idle"]
    /\ UNCHANGED callHandlers
    /\ DispFrame

\* clasp.hpp:321, 69  the handler calls onCall on the Protocol that invoked it
Handler_CallsOnCall ==
    /\ disp.pc[UI] = "handler"
    /\ disp.call.handler.kind = "onCall"
    /\ disp' = [disp EXCEPT !.pc[UI] = "onCall_lock",
                            !.reg[UI] = [name |-> NestedName,
                                         handler |-> NestedHandler,
                                         back |-> "handler"],
                            !.call.handler = [kind |-> "return",
                                              text |-> disp.call.handler.text]]
    /\ UNCHANGED << callHandlers, replies, handlersMutex >>
    /\ DispFrame

\* clasp.hpp:334-335  sendReply(callId, result, ""); return
HandleCall_Reply ==
    /\ disp.pc[UI] = "handleCall_reply"
    /\ replies' = Evaluate(replies, <<Reply(disp.call.id, disp.call.result, << >>)>>)
    /\ disp' = [disp EXCEPT !.pc[UI] = "idle"]
    /\ UNCHANGED << callHandlers, handlersMutex >>
    /\ DispFrame

\* a Protocol built on a created WebView (clasp.hpp:53-57)
InitDispatch ==
    /\ InitCreated
    /\ InitDefaultRate

NextDispatch ==
    \/ \E t \in DispThreads, n \in HandlerNames, h \in DispatchHandlers :
          OnCall_Call(t, n, h)
    \/ \E t \in DispThreads : OnCall_Lock(t)
    \/ \E t \in DispThreads : OnCall_Relock(t)
    \/ \E t \in DispThreads : OnCall_Store(t)
    \/ \E m \in DispatchMessages : Dispatch_Call(m)
    \/ HandleCall_Lock
    \/ HandleCall_Find
    \/ Handler_Returns
    \/ Handler_Throws
    \/ Handler_CallsOnCall
    \/ HandleCall_Reply

\* a thread that has begun a call goes on with it whenever it can
DispatchStep(t) ==
    \/ OnCall_Lock(t)
    \/ OnCall_Relock(t)
    \/ OnCall_Store(t)
    \/ /\ t = UI
       /\ \/ HandleCall_Lock
          \/ HandleCall_Find
          \/ Handler_Returns
          \/ Handler_Throws
          \/ Handler_CallsOnCall
          \/ HandleCall_Reply

SpecDispatch ==
    /\ InitDispatch
    /\ [][NextDispatch]_vars
    /\ \A t \in DispThreads : WF_vars(DispatchStep(t))


(* ---------------------- properties of the dispatch --------------------- *)
\* C21: dispatching a call always completes: handleCall returns and releases
\* handlersMutex_ for every call message, also when the handler calls onCall on
\* the same Protocol and when another thread calls onCall while the handler
\* runs; no onCall and no dispatch that has begun stays unfinished forever.
C21_DispatchCompletes ==
    \A t \in DispThreads :
        [](disp.pc[t] # "idle" => <>(disp.pc[t] = "idle" /\ handlersMutex # t))



(* ------ SpecLock: the queue mutexes of a Protocol and of a WebView ----- *)
(* ------ producer threads and the UI thread, statement by statement ----- *)
\* one thread queues on the Protocol, another on the WebView
ProtocolCallers == {"p1"}
WebviewCallers == {"p2"}
LockBulkInputs == { << <<0, 1>> >> }

LockFrame ==
    UNCHANGED << viewVars, guiVars, paramCalls, handlersMutex, disp, now, webVars,
                 callVars, queueVars, throttleVars, queueMutex, drain, sent,
                 swapCount, acceptLog, lastCall, rate, ticks >>

\* webview.cpp:328-336  the throttle check of queueParamUpdate, outside the lock
WvQueueParamUpdate_Check(p, paramId, value) ==
    /\ pc[p] = "idle"
    /\ Room(1)
    /\ LET last == IF InRange(paramId) THEN wv.lastParamUpdate[paramId] ELSE 0
           reject == InRange(paramId) /\ Throttled(now, last, wv.updateInterval)
       IN IF reject
          THEN UNCHANGED << pc, frame >>
          ELSE /\ frame' = [frame EXCEPT ![p] =
                      [op |-> "param", id |-> paramId, value |-> value, t |-> now]]
               /\ pc' = [pc EXCEPT ![p] = IF InRange(paramId) THEN "wv_store"
                                          ELSE "wv_lock"]
    /\ UNCHANGED << wv, wvLock, nextTag >>
    /\ LockFrame

\* webview.cpp:335  lastParamUpdate_[paramId] = now
WvQueueParamUpdate_Store(p) ==
    /\ pc[p] = "wv_store"
    /\ wv' = [wv EXCEPT !.lastParamUpdate = StoreStamp(@, frame[p].id, frame[p].t)]
    /\ pc' = [pc EXCEPT ![p] = "wv_lock"]
    /\ UNCHANGED << frame, wvLock, nextTag >>
    /\ LockFrame

\* webview.cpp:338  std::lock_guard<std::mutex> lock(queueMutex_)
WvQueueParamUpdate_Lock(p) ==
    /\ pc[p] = "wv_lock"
    /\ wvLock.owner = NoOwner
    /\ wvLock' = [wvLock EXCEPT !.owner = p]
    /\ pc' = [pc EXCEPT ![p] = "wv_push"]
    /\ UNCHANGED << frame, wv, nextTag >>
    /\ LockFrame

\* std::lock_guard<std::mutex> lock(queueMutex_), the first statement of
\* WebView's queueBulkParamUpdate, queueNoteOn and queueMidiCC (and of
\* queueNoteOff, which differs from queueNoteOn only in the event it appends)
WvBeginCall(p, f) ==
    /\ pc[p] = "idle"
    /\ wvLock.owner = NoOwner
    /\ wvLock' = [wvLock EXCEPT !.owner = p]
    /\ frame' = [frame EXCEPT ![p] = f]
    /\ pc' = [pc EXCEPT ![p] = "wv_push"]
    /\ UNCHANGED << wv, nextTag >>
    /\ LockFrame

\* webview.cpp:342  queueBulkParamUpdate(params)
WvQueueBulkParamUpdate_Call(p, params) ==
    /\ Room(Len(params))
    /\ WvBeginCall(p, [op |-> "bulk", params |-> params])

\* webview.cpp:347  queueNoteOn(channel, key, velocity)
WvQueueNoteOn_Call(p, channel, key, velocity) ==
    /\ Room(1)
    /\ WvBeginCall(p, [op |-> "noteOn", channel |-> channel, key |-> key,
                       velocity |-> velocity])

\* webview.cpp:357  queueMidiCC(channel, cc, value)
WvQueueMidiCC_Call(p, channel, cc, value) ==
    /\ Room(1)
    /\ WvBeginCall(p, [op |-> "cc", channel |-> channel, cc |-> cc, value |-> value])

\* webview.cpp:339, 344, 349, 359  the append, then the lock_guard's release
WvProducer_Push(p) ==
    /\ pc[p] = "wv_push"
    /\ wvLock.owner = p
    /\ LET f == frame[p] IN
       wv' = IF f.op = "param"
             THEN [wv EXCEPT !.pendingParams =
                      PushBack(@, [id |-> f.id, value |-> f.value, src |-> Stamp(0)])]
             ELSE IF f.op = "bulk"
             THEN WvQueueBulkParamUpdate(wv, StampedPairs(f.params))
             ELSE IF f.op = "noteOn"
             THEN WvQueueNote(wv, f.channel, f.key, f.velocity, TRUE, Stamp(0))
             ELSE WvQueueMidiCC(wv, f.channel, f.cc, f.value, Stamp(0))
    /\ nextTag' = nextTag + InFlight(p)
    /\ wvLock' = [wvLock EXCEPT !.owner = NoOwner]
    /\ pc' = [pc EXCEPT ![p] = "idle"]
    /\ frame' = [frame EXCEPT ![p] = NoFrame]
    /\ LockFrame

\* webview.cpp:363, 371  if (!impl_->webview) return; lock_guard lock(queueMutex_)
ProcessQueuedUpdates_Lock ==
    /\ pc[UI] = "idle"
    /\ HasWebview(webview)
    /\ wvLock.owner = NoOwner
    /\ wvLock' = [wvLock EXCEPT !.owner = UI]
    /\ pc' = [pc EXCEPT ![UI] = "wv_swap"]
    /\ UNCHANGED << frame, wv, nextTag >>
    /\ LockFrame

SwapBlockNeverEnds(owner) == owner

\* webview.cpp:380  the closing brace of the locked block: the lock_guard's release
SwapBlockEnd(owner) == NoOwner

\* webview.cpp:372-380  the four moves, the four clears, the end of the block
ProcessQueuedUpdates_Swap ==
    /\ pc[UI] = "wv_swap"
    /\ wvLock.owner = UI
    /\ wvLock' = [owner |-> SwapBlockEnd(wvLock.owner),
                  drain |-> [params |-> wv.pendingParams,
                             bulkParams |-> wv.pendingBulkParams,
                             notes |-> wv.pendingNotes, ccs |-> wv.pendingCCs]]
    /\ wv' = [wv EXCEPT !.pendingParams = ClearedAfterMove(@),
                        !.pendingBulkParams = ClearedAfterMove(@),
                        !.pendingNotes = ClearedAfterMove(@),
                        !.pendingCCs = ClearedAfterMove(@)]
    /\ pc' = [pc EXCEPT ![UI] = "wv_send"]
    /\ UNCHANGED << frame, nextTag >>
    /\ LockFrame

\* webview.cpp:382-422  the four evaluateJavascript loops
ProcessQueuedUpdates_Send ==
    /\ pc[UI] = "wv_send"
    /\ wv' = [wv EXCEPT !.sent = @ \o SendOrder(WvParamMsgs(wvLock.drain.params),
                                                WvBulkMsgs(wvLock.drain.bulkParams),
                                                WvNoteMsgs(wvLock.drain.notes),
                                                WvCCMsgs(wvLock.drain.ccs))]
    /\ wvLock' = [wvLock EXCEPT !.drain = NoDrain]
    /\ pc' = [pc EXCEPT ![UI] = "idle"]
    /\ UNCHANGED << frame, nextTag >>
    /\ LockFrame

\* a Protocol built on a created WebView, the default rate on both
InitLock ==
    /\ InitCreated
    /\ InitDefaultRate

NextLock ==
    \/ \E p \in ProtocolCallers, i \in QueueParamIds, v \in Values :
          QueueParamChange_Check(p, i, v)
    \/ \E p \in ProtocolCallers : QueueParamChange_Store(p)
    \/ \E p \in ProtocolCallers : QueueParamChange_Lock(p)
    \/ \E p \in ProtocolCallers, b \in LockBulkInputs : QueueBulkParamUpdate_Call(p, b)
    \/ \E p \in ProtocolCallers, c \in Channels, k \in Keys, v \in Velocities :
          QueueNoteOn_Call(p, c, k, v)
    \/ \E p \in ProtocolCallers, c \in Channels, n \in CCNumbers, v \in CCValues :
          QueueMidiCC_Call(p, c, n, v)
    \/ \E p \in ProtocolCallers : Producer_Push(p)
    \/ ProcessQueue_Lock
    \/ ProcessQueue_Swap
    \/ ProcessQueue_Send
    \/ \E p \in WebviewCallers, i \in QueueParamIds, v \in Values :
          WvQueueParamUpdate_Check(p, i, v)
    \/ \E p \in WebviewCallers : WvQueueParamUpdate_Store(p)
    \/ \E p \in WebviewCallers : WvQueueParamUpdate_Lock(p)
    \/ \E p \in WebviewCallers, b \in LockBulkInputs : WvQueueBulkParamUpdate_Call(p, b)
    \/ \E p \in WebviewCallers, c \in Channels, k \in Keys, v \in Velocities :
          WvQueueNoteOn_Call(p, c, k, v)
    \/ \E p \in WebviewCallers, c \in Channels, n \in CCNumbers, v \in CCValues :
          WvQueueMidiCC_Call(p, c, n, v)
    \/ \E p \in WebviewCallers : WvProducer_Push(p)
    \/ ProcessQueuedUpdates_Lock
    \/ ProcessQueuedUpdates_Swap
    \/ ProcessQueuedUpdates_Send


SpecLock == InitLock /\ [][NextLock]_vars



(* --------------------- properties of the queue mutexes ----------------- *)
\* the thread that owns a mutex is at a statement of this kind
HeldOnlyAt(owner, appending, swapping) ==
    /\ \A p \in Producers : owner = p => pc[p] = appending
    /\ owner = UI => pc[UI] = swapping

\* a thread waiting for a mutex waits for a thread that appends or swaps
WaitsOnlyForQueueWork(owner, waiting, appending, swapping) ==
    \A p \in Producers :
        (pc[p] = waiting /\ owner # NoOwner) =>
            /\ owner # p
            /\ pc[owner] = IF owner = UI THEN swapping ELSE appending

\* C22: each queue mutex is held only while a producer appends to a pending
\* queue or while the drain swaps and clears the pending queues; the thread
\* that evaluates the scripts of a drain does not hold it, so a producer that
\* waits for the mutex never waits for script evaluation.
C22_LockScope ==
    /\ HeldOnlyAt(queueMutex, "push", "swap")
    /\ HeldOnlyAt(wvLock.owner, "wv_push", "wv_swap")
    /\ pc[UI] \in {"send", "wv_send"} => queueMutex # UI /\ wvLock.owner # UI
    /\ WaitsOnlyForQueueWork(queueMutex, "lock", "push", "swap")
    /\ WaitsOnlyForQueueWork(wvLock.owner, "wv_lock", "wv_push", "wv_swap")

\* the WebView's drain is about to evaluate its scripts while a producer holds
\* the WebView's mutex to append, and the Protocol's drain has evaluated before
C22_Witness ==
    /\ pc[UI] = "wv_send"
    /\ wvLock.drain # NoDrain
    /\ \E p \in WebviewCallers : wvLock.owner = p /\ pc[p] = "wv_push"
    /\ Len(sent) > 0


=============================================================================
